---- MODULE Spec2Model ----
(***************************************************************************)
(* miniMaks: the HTTP API (focuses, tasks, assistant), its centralized     *)
(* error handler and the assistant gateway's JSON extraction.              *)
(*                                                                         *)
(* Every route handler is one action: it reads the store, runs the         *)
(* handler's checks in the handler's order and either writes the store and *)
(* answers 2xx, or answers the error reply the handler (or the global      *)
(* error handler, for a thrown error) produces.                            *)
(***************************************************************************)
EXTENDS Integers, Sequences, FiniteSets, TLC

\* ------------------------------------------------------------------ bounds
MaxFocuses   == 1   \* focuses ever created
MaxTasks     == 1   \* tasks ever created
MaxComments  == 1   \* comments ever created
MaxExchanges == 1   \* question/answer pairs per assistant thread
MaxLen       == 4   \* length of a provider response, in tokens
MaxListed    == 2   \* Task rows GET /focuses/:id/tasks reads
MaxLogs      == 2   \* NotificationLog rows the processor finds
MaxPlanned   == 2   \* tasks in one plan_to_tasks request
MaxThread    == 17  \* messages of a thread before a POST message
MaxJobs      == 2   \* notification queue jobs running beside the reminder
MaxToggles   == 3   \* toggleTask calls made against the server
MaxRows      == 2   \* Task rows a cron job reads
MaxShown     == 2   \* tasks in the list the web client shows
MaxPending   == 2   \* toggleTask calls awaiting the server

\* ------------------------------------------------------------- value sets
NULL    == "NULL"      \* null of a string-valued column / field
NullNum == 0 - 1       \* null of a date- or number-valued column

Users    == {"u1", "u2"}
GhostUser == "u-ghost"  \* a well-formed uuid that is no User row
FocusIds == 1..MaxFocuses
TaskIds  == 1..MaxTasks

FocusStatuses  == {"active", "paused", "archived"}
TaskPriorities == {"low", "medium", "high", "urgent"}
TaskStatuses   == {"todo", "in_progress", "done", "canceled"}

Has(b, f) == f \in DOMAIN b          \* body.f !== undefined
Get(b, f, d) == IF Has(b, f) /\ b[f] # NULL THEN b[f] ELSE d   \* body.f ?? d

\* z.string().datetime(): the ISO strings the model sends, with the instant
\* each denotes (in days); any other string is rejected.
IsoDates == {"2025-06-01T00:00:00Z", "2025-12-31T00:00:00Z"}
IsDatetime(s) == s \in IsoDates
NewDate(s) == IF s = "2025-06-01T00:00:00Z" THEN 20240 ELSE 20453

\* ------------------------------------------------------------ errors.ts
ErrorCodes == {"validation_error", "unauthorized", "forbidden", "not_found",
               "conflict", "gone", "trial_expired", "owner_only",
               "not_assignee", "internal_error", "ai_error"}

AppError(code, httpStatus, message) ==
  [kind |-> "AppError", code |-> code, httpStatus |-> httpStatus,
   message |-> message, statusCode |-> NullNum]

ErrUnauthorized == AppError("unauthorized", 401, "unauthorized")
ErrForbidden    == AppError("forbidden", 403, "forbidden")
ErrOwnerOnly    == AppError("owner_only", 403, "Only the project owner can do this")
ErrNotAssignee  == AppError("not_assignee", 403, "Only the task assignee can do this")
ErrNotFound(entity) == AppError("not_found", 404, entity \o " not found")
ErrConflict     == AppError("conflict", 409, "conflict")
ErrGone         == AppError("gone", 410, "gone")
ErrTrialExpired == AppError("trial_expired", 402, "Trial period has expired. Please upgrade.")
ErrValidation   == AppError("validation_error", 422, "invalid")
ErrInternal     == AppError("internal_error", 500, "internal_error")
ErrAiError      == AppError("ai_error", 502, "ai")

Errors == {ErrUnauthorized, ErrForbidden, ErrOwnerOnly, ErrNotAssignee,
           ErrNotFound("Task"), ErrNotFound("Focus"), ErrConflict, ErrGone,
           ErrTrialExpired, ErrValidation, ErrInternal, ErrAiError}

\* a ZodError thrown by schema.parse
ZodError == [kind |-> "ZodError", code |-> NULL, httpStatus |-> NullNum,
             message |-> "zod", statusCode |-> NullNum]

\* any other Error: statusCode is undefined (NullNum) unless Fastify set it
OtherError(statusCode, message) ==
  [kind |-> "Error", code |-> NULL, httpStatus |-> NullNum,
   message |-> message, statusCode |-> statusCode]

NoError == [kind |-> "none", code |-> NULL, httpStatus |-> NullNum,
            message |-> "", statusCode |-> NullNum]

\* a Prisma failure inside a handler (foreign key violation)
PrismaError == OtherError(NullNum, "Foreign key constraint failed")

\* the handler with the "status < 500" branch left out
globalErrorHandlerNoRequestError(err, logEventFails) ==
  IF err.kind = "ZodError" THEN
    [status |-> 422,
     body |-> [ok |-> FALSE, code |-> "validation_error",
               error |-> "Invalid request data", details |-> "fieldErrors"],
     logged |-> FALSE, events |-> <<>>]
  ELSE IF err.kind = "AppError" THEN
    [status |-> err.httpStatus,
     body |-> [ok |-> FALSE, code |-> err.code, error |-> err.message],
     logged |-> err.httpStatus >= 500, events |-> <<>>]
  ELSE
    [status |-> 500,
     body |-> [ok |-> FALSE, code |-> "internal_error",
               error |-> "Something went wrong. Please try again."],
     logged |-> TRUE,
     events |-> IF logEventFails THEN <<>> ELSE <<"error_api">>]

\* the handler without the try around logEvent: a rejected logEvent makes
\* the handler reject and Fastify send its own 500 body
globalErrorHandlerLogEventThrows(err, logEventFails) ==
  IF err.kind = "ZodError" THEN
    [status |-> 422,
     body |-> [ok |-> FALSE, code |-> "validation_error",
               error |-> "Invalid request data", details |-> "fieldErrors"],
     logged |-> FALSE, events |-> <<>>]
  ELSE IF err.kind = "AppError" THEN
    [status |-> err.httpStatus,
     body |-> [ok |-> FALSE, code |-> err.code, error |-> err.message],
     logged |-> err.httpStatus >= 500, events |-> <<>>]
  ELSE LET status == IF err.statusCode # NullNum THEN err.statusCode ELSE 500 IN
    IF status < 500 THEN
      [status |-> status,
       body |-> [ok |-> FALSE, code |-> "request_error", error |-> err.message],
       logged |-> FALSE, events |-> <<>>]
    ELSE IF logEventFails THEN
      [status |-> 500,
       body |-> [statusCode |-> 500, error |-> "Internal Server Error",
                 message |-> "logEvent failed"],
       logged |-> TRUE, events |-> <<>>]
    ELSE
      [status |-> 500,
       body |-> [ok |-> FALSE, code |-> "internal_error",
                 error |-> "Something went wrong. Please try again."],
       logged |-> TRUE, events |-> <<"error_api">>]

\* globalErrorHandler(err, req, reply): the reply sent (status, body), whether
\* req.log.error ran, and the EventLog rows written. logEventFails: the
\* logEvent call of the last branch rejects.
globalErrorHandler(err, logEventFails) ==
  IF err.kind = "ZodError" THEN
    [status |-> 422,
     body |-> [ok |-> FALSE, code |-> "validation_error",
               error |-> "Invalid request data", details |-> "fieldErrors"],
     logged |-> FALSE, events |-> <<>>]
  ELSE IF err.kind = "AppError" THEN
    [status |-> err.httpStatus,
     body |-> [ok |-> FALSE, code |-> err.code, error |-> err.message],
     logged |-> err.httpStatus >= 500, events |-> <<>>]
  ELSE LET status == IF err.statusCode # NullNum THEN err.statusCode ELSE 500 IN
    IF status < 500 THEN
      [status |-> status,
       body |-> [ok |-> FALSE, code |-> "request_error", error |-> err.message],
       logged |-> FALSE, events |-> <<>>]
    ELSE
      [status |-> 500,
       body |-> [ok |-> FALSE, code |-> "internal_error",
                 error |-> "Something went wrong. Please try again."],
       logged |-> TRUE,
       events |-> IF logEventFails THEN <<>> ELSE <<"error_api">>]

\* ------------------------------------------------------------- the store
VARIABLES
  active,        \* subscription.ts isActive(user): user -> BOOLEAN
  focuses,       \* Focus rows: id -> record
  members,       \* FocusMember rows: <<focus_id, user_id>> -> role
  tasks,         \* Task rows: id -> record
  comments,      \* TaskComment rows
  threads,       \* AssistantThread of a focus: focus_id -> Seq(AssistantMessage)
  nextFocusId, nextTaskId,   \* ids are fresh (uuid): never reused
  now,           \* the wall clock read by new Date()
  last,          \* the request in flight with the reply sent to it; NoReply
                 \* once the client has taken the reply
  handled,       \* globalErrorHandler: the error given and the reply sent
  ai,            \* callBusinessAssistant: the provider response and the result
  job,           \* worker: a notification queue job, the NotificationLog rows
                 \* and what the processor did
  cron,          \* worker: the rows a cron job reads and what its run did
  web,           \* web client: the task list shown, the error shown and the
                 \* toggleTask calls awaiting the server
  pr,            \* POST message: the thread read and the message list sent
  notif          \* worker: the NotificationLog table with the queue jobs and
                 \* the deadline reminder running on it, await by await

store == <<active, focuses, members, tasks, comments, threads,
           nextFocusId, nextTaskId>>
vars == <<active, focuses, members, tasks, comments, threads,
          nextFocusId, nextTaskId, now, last, handled, ai, job, cron, web, pr, notif>>

\* prisma.focusMember.findUnique({focus_id_user_id}): the member's role or NULL
findMember(focusId, userId) ==
  IF <<focusId, userId>> \in DOMAIN members THEN members[<<focusId, userId>>] ELSE NULL

\* the reply of a handler: `data` is the JSON body, `events` the EventLog rows
\* the request wrote
Reply(op, user, target, status, body, events) ==
  [op |-> op, user |-> user, target |-> target, status |-> status,
   body |-> body, events |-> events]

NoReply == Reply("none", NULL, 0, 0, [ok |-> TRUE], <<>>)

\* a handler that throws: Fastify hands the error to globalErrorHandler; no
\* store write has been made
Throw(op, user, target, err) ==
  /\ \E logEventFails \in (IF err.kind = "Error" THEN BOOLEAN ELSE {FALSE}) :
       LET r == globalErrorHandler(err, logEventFails) IN
         last' = Reply(op, user, target, r.status, r.body, r.events)
  /\ UNCHANGED <<store, now, handled, ai, job, cron, web, pr, notif>>

\* reply.code(status).send(body) before any store write
SendError(op, user, target, status, body) ==
  /\ last' = Reply(op, user, target, status, body, <<>>)
  /\ UNCHANGED <<store, now, handled, ai, job, cron, web, pr, notif>>

\* -------------------------------------------------------------- focuses.ts
createFocusSchema(body) ==
  /\ Has(body, "title") /\ Len(body.title) >= 1
  /\ (Has(body, "deadline_at") /\ body.deadline_at # NULL) => IsDatetime(body.deadline_at)

patchFocusSchema(body) ==
  /\ Has(body, "title") => Len(body.title) >= 1
  /\ (Has(body, "deadline_at") /\ body.deadline_at # NULL) => IsDatetime(body.deadline_at)
  /\ Has(body, "status") => body.status \in FocusStatuses

\* body.deadline_at ? new Date(body.deadline_at) : null
DateOrNull(s) == IF s # NULL /\ s # "" THEN NewDate(s) ELSE NullNum

\* the request bodies the model sends
CreateFocusBodies ==
  { [title |-> "Shop"],
    [title |-> ""],
    [description |-> "no title"],
    [title |-> "Shop", deadline_at |-> "soon"] }

PatchFocusBodies ==
  { [title |-> "Cafe"],
    [status |-> "deleted"],
    [title |-> "Cafe", description |-> "d", stage |-> "growth",
     deadline_at |-> "2025-12-31T00:00:00Z", success_metric |-> "mrr",
     budget |-> 100000, niche |-> "E-commerce", status |-> "archived"] }

\* the data object of prisma.focus.create
NewFocus(u, body) ==
  [owner_user_id |-> u,
   title |-> body.title,
   description |-> Get(body, "description", NULL),
   stage |-> Get(body, "stage", NULL),
   deadline_at |-> DateOrNull(Get(body, "deadline_at", NULL)),
   success_metric |-> Get(body, "success_metric", NULL),
   budget |-> IF Has(body, "budget") THEN body.budget ELSE NullNum,
   niche |-> Get(body, "niche", NULL),
   status |-> "active"]

\* POST /focuses
CreateFocus(u, body) ==
  /\ last = NoReply
  /\ LET op == "POST /focuses" IN
     IF ~active[u] THEN Throw(op, u, 0, ErrTrialExpired)
     ELSE IF ~createFocusSchema(body) THEN Throw(op, u, 0, ZodError)
     ELSE
       /\ nextFocusId <= MaxFocuses
       /\ LET id == nextFocusId
              focus == NewFocus(u, body)
          IN /\ focuses' = [i \in DOMAIN focuses \cup {id} |->
                              IF i = id THEN focus ELSE focuses[i]]
             /\ members' = [k \in DOMAIN members \cup {<<id, u>>} |->
                              IF k = <<id, u>> THEN "owner" ELSE members[k]]
             /\ threads' = [i \in DOMAIN threads \cup {id} |->
                              IF i = id THEN <<>> ELSE threads[i]]
             /\ nextFocusId' = nextFocusId + 1
             /\ last' = Reply(op, u, id, 201, [ok |-> TRUE, focus |-> focus],
                              <<"create_focus">>)
             /\ UNCHANGED <<active, tasks, comments, nextTaskId, now, handled, ai, job, cron, web, pr, notif>>

\* GET /focuses/:id
GetFocus(u, focusId) ==
  /\ last = NoReply
  /\ LET op == "GET /focuses/:id"
         member == findMember(focusId, u) IN
     IF member = NULL THEN Throw(op, u, focusId, ErrForbidden)
     ELSE IF focusId \notin DOMAIN focuses THEN Throw(op, u, focusId, ErrNotFound("Focus"))
     ELSE /\ last' = Reply(op, u, focusId, 200,
                           [ok |-> TRUE, focus |-> focuses[focusId], role |-> member], <<>>)
          /\ UNCHANGED <<store, now, handled, ai, job, cron, web, pr, notif>>

\* the data object of prisma.focus.update in PATCH /focuses/:id
PatchFocusData(focus, body) ==
  [owner_user_id |-> focus.owner_user_id,
   title |-> IF Has(body, "title") THEN body.title ELSE focus.title,
   description |-> IF Has(body, "description") THEN body.description ELSE focus.description,
   stage |-> IF Has(body, "stage") THEN body.stage ELSE focus.stage,
   deadline_at |-> IF Has(body, "deadline_at") THEN DateOrNull(body.deadline_at)
                   ELSE focus.deadline_at,
   success_metric |-> IF Has(body, "success_metric") THEN body.success_metric
                      ELSE focus.success_metric,
   budget |-> IF Has(body, "budget") THEN body.budget ELSE focus.budget,
   niche |-> IF Has(body, "niche") THEN body.niche ELSE focus.niche,
   status |-> IF Has(body, "status") THEN body.status ELSE focus.status]

\* the guard of PATCH /focuses/:id without the owner check
PatchFocusGuardNoOwnerCheck(u, focusId, body) ==
  IF ~active[u] THEN ErrTrialExpired
  ELSE IF findMember(focusId, u) = NULL THEN ErrForbidden
  ELSE IF ~patchFocusSchema(body) THEN ZodError
  ELSE NoError

\* the checks of PATCH /focuses/:id before the update, in the handler's
\* order: the error thrown, or NoError
PatchFocusGuard(u, focusId, body) ==
  IF ~active[u] THEN ErrTrialExpired
  ELSE IF findMember(focusId, u) = NULL THEN ErrForbidden
  ELSE IF findMember(focusId, u) # "owner" THEN ErrOwnerOnly
  ELSE IF ~patchFocusSchema(body) THEN ZodError
  ELSE NoError

\* PATCH /focuses/:id
PatchFocus(u, focusId, body) ==
  /\ last = NoReply
  /\ LET op == "PATCH /focuses/:id"
         err == PatchFocusGuard(u, focusId, body) IN
     IF err # NoError THEN Throw(op, u, focusId, err)
     ELSE LET focus == PatchFocusData(focuses[focusId], body) IN
          /\ focuses' = [focuses EXCEPT ![focusId] = focus]
          /\ last' = Reply(op, u, focusId, 200, [ok |-> TRUE, focus |-> focus],
                           <<"update_focus">>)
          /\ UNCHANGED <<active, members, tasks, comments, threads,
                         nextFocusId, nextTaskId, now, handled, ai, job, cron, web, pr, notif>>

\* the checks of DELETE /focuses/:id before the delete
DeleteFocusGuard(u, focusId) ==
  IF findMember(focusId, u) = NULL THEN ErrForbidden
  ELSE IF findMember(focusId, u) # "owner" THEN ErrOwnerOnly
  ELSE NoError

\* DELETE /focuses/:id: the rows that belong to the focus go with it
DeleteFocus(u, focusId) ==
  /\ last = NoReply
  /\ LET op == "DELETE /focuses/:id"
         err == DeleteFocusGuard(u, focusId) IN
     IF err # NoError THEN Throw(op, u, focusId, err)
     ELSE LET keptTasks == {t \in DOMAIN tasks : tasks[t].focus_id # focusId} IN
          /\ focuses' = [i \in DOMAIN focuses \ {focusId} |-> focuses[i]]
          /\ members' = [k \in {m \in DOMAIN members : m[1] # focusId} |-> members[k]]
          /\ threads' = [i \in DOMAIN threads \ {focusId} |-> threads[i]]
          /\ tasks' = [t \in keptTasks |-> tasks[t]]
          /\ comments' = SelectSeq(comments, LAMBDA c : c.task_id \in keptTasks)
          /\ last' = Reply(op, u, focusId, 200, [ok |-> TRUE], <<"delete_focus">>)
          /\ UNCHANGED <<active, nextFocusId, nextTaskId, now, handled, ai, job, cron, web, pr, notif>>

\* ---------------------------------------------------------------- tasks.ts
IsUuid(s) == s \in Users \cup {GhostUser}

createTaskSchema(body) ==
  /\ Has(body, "title") /\ Len(body.title) >= 1
  /\ Has(body, "priority") => body.priority \in TaskPriorities
  /\ Has(body, "status") => body.status \in TaskStatuses
  /\ (Has(body, "due_at") /\ body.due_at # NULL) => IsDatetime(body.due_at)
  /\ (Has(body, "assigned_to_user_id") /\ body.assigned_to_user_id # NULL)
       => IsUuid(body.assigned_to_user_id)

patchTaskSchema(body) ==
  /\ Has(body, "title") => Len(body.title) >= 1
  /\ Has(body, "priority") => body.priority \in TaskPriorities
  /\ Has(body, "status") => body.status \in TaskStatuses
  /\ (Has(body, "due_at") /\ body.due_at # NULL) => IsDatetime(body.due_at)
  /\ (Has(body, "assigned_to_user_id") /\ body.assigned_to_user_id # NULL)
       => IsUuid(body.assigned_to_user_id)

\* the foreign key Task.assigned_to_user_id -> User.id
AssigneeRowExists(userId) == userId = NULL \/ userId \in Users

CreateTaskBodies ==
  { [title |-> "Call supplier"],
    [title |-> ""],
    [title |-> "Call supplier", priority |-> "asap"],
    [title |-> "Call supplier", assigned_to_user_id |-> GhostUser] }
  \cup { [title |-> "Call supplier", assigned_to_user_id |-> u] : u \in Users }

PatchTaskBodies ==
  { [status |-> "done"],
    [status |-> "finished"],
    [status |-> "todo", title |-> "Renamed", priority |-> "urgent",
     assigned_to_user_id |-> NULL, due_at |-> "2025-12-31T00:00:00Z",
     description |-> "moved"],
    [assigned_to_user_id |-> GhostUser] }

\* the where of GET /focuses/:id/tasks without the assignee filter
ListTasksWhereAnyAssignee(u, focusId, q) ==
  {t \in DOMAIN tasks :
     /\ tasks[t].focus_id = focusId
     /\ q.status # NULL => tasks[t].status = q.status
     /\ q.priority # NULL => tasks[t].priority = q.priority}

\* GET /focuses/:id/tasks: the `where` of prisma.task.findMany
ListTasksWhere(u, focusId, q) ==
  {t \in DOMAIN tasks :
     /\ tasks[t].focus_id = focusId
     /\ q.assigned # "all" => tasks[t].assigned_to_user_id = u
     /\ q.status # NULL => tasks[t].status = q.status
     /\ q.priority # NULL => tasks[t].priority = q.priority}

Queries == [assigned : {"all", "me", NULL}, status : {NULL, "done"},
            priority : {NULL, "urgent"}]

\* GET /focuses/:id/tasks
ListTasks(u, focusId, q) ==
  /\ last = NoReply
  /\ LET op == "GET /focuses/:id/tasks" IN
     IF findMember(focusId, u) = NULL THEN Throw(op, u, focusId, ErrForbidden)
     ELSE /\ last' = [op |-> op, user |-> u, target |-> focusId, status |-> 200,
                       body |-> [ok |-> TRUE,
                                 tasks |-> [t \in ListTasksWhere(u, focusId, q) |->
                                              tasks[t]]],
                       events |-> <<>>, query |-> q]
          /\ UNCHANGED <<store, now, handled, ai, job, cron, web, pr, notif>>

\* the checks of POST /focuses/:id/tasks before the create
CreateTaskGuard(u, focusId, body) ==
  IF ~active[u] THEN ErrTrialExpired
  ELSE IF findMember(focusId, u) = NULL THEN ErrForbidden
  ELSE IF findMember(focusId, u) # "owner" THEN ErrOwnerOnly
  ELSE IF ~createTaskSchema(body) THEN ZodError
  ELSE IF ~AssigneeRowExists(Get(body, "assigned_to_user_id", NULL)) THEN PrismaError
  ELSE NoError

\* the data object of prisma.task.create
NewTask(u, focusId, body) ==
  [focus_id |-> focusId,
   created_by_user_id |-> u,
   title |-> body.title,
   description |-> Get(body, "description", NULL),
   priority |-> Get(body, "priority", "medium"),
   status |-> Get(body, "status", "todo"),
   due_at |-> DateOrNull(Get(body, "due_at", NULL)),
   assigned_to_user_id |-> Get(body, "assigned_to_user_id", NULL),
   completed_at |-> NullNum,
   subtasks |-> <<>>]

\* POST /focuses/:id/tasks
CreateTask(u, focusId, body) ==
  /\ last = NoReply
  /\ LET op == "POST /focuses/:id/tasks"
         err == CreateTaskGuard(u, focusId, body) IN
     IF err # NoError THEN Throw(op, u, focusId, err)
     ELSE /\ nextTaskId <= MaxTasks
          /\ LET id == nextTaskId
                 task == NewTask(u, focusId, body)
             IN /\ tasks' = [t \in DOMAIN tasks \cup {id} |->
                               IF t = id THEN task ELSE tasks[t]]
                /\ nextTaskId' = nextTaskId + 1
                /\ last' = Reply(op, u, focusId, 201, [ok |-> TRUE, task |-> task],
                                 <<"create_task">>)
                /\ UNCHANGED <<active, focuses, members, comments,
                               threads, nextFocusId, now, handled, ai, job, cron, web, pr, notif>>

\* new Date() when the status becomes 'done', else null
CompletedAt(status) == IF status = "done" THEN now ELSE NullNum

\* the member branch writing every field the body names
PatchTaskMemberDataAllFields(task, body) ==
  [task EXCEPT
     !.title = IF Has(body, "title") THEN body.title ELSE @,
     !.priority = IF Has(body, "priority") THEN body.priority ELSE @,
     !.assigned_to_user_id =
        IF Has(body, "assigned_to_user_id") /\ AssigneeRowExists(body.assigned_to_user_id)
        THEN body.assigned_to_user_id ELSE @,
     !.status = IF Has(body, "status") THEN body.status ELSE @,
     !.completed_at = IF Has(body, "status") THEN CompletedAt(body.status) ELSE @,
     !.due_at = IF Has(body, "due_at") THEN DateOrNull(body.due_at) ELSE @,
     !.description = IF Has(body, "description") THEN body.description ELSE @]

\* PATCH /tasks/:id, member branch: the data object of prisma.task.update
PatchTaskMemberData(task, body) ==
  [task EXCEPT
     !.status = IF Has(body, "status") /\ body.status # "" THEN body.status ELSE @,
     !.completed_at = IF Has(body, "status") /\ body.status # ""
                      THEN CompletedAt(body.status) ELSE @,
     !.due_at = IF Has(body, "due_at") THEN DateOrNull(body.due_at) ELSE @,
     !.description = IF Has(body, "description") THEN body.description ELSE @]

\* PATCH /tasks/:id, owner branch: the data object of prisma.task.update
PatchTaskOwnerData(task, body) ==
  [task EXCEPT
     !.title = IF Has(body, "title") THEN body.title ELSE @,
     !.description = IF Has(body, "description") THEN body.description ELSE @,
     !.priority = IF Has(body, "priority") THEN body.priority ELSE @,
     !.status = IF Has(body, "status") THEN body.status ELSE @,
     !.completed_at = IF Has(body, "status") THEN CompletedAt(body.status) ELSE @,
     !.due_at = IF Has(body, "due_at") THEN DateOrNull(body.due_at) ELSE @,
     !.assigned_to_user_id =
        IF Has(body, "assigned_to_user_id") THEN body.assigned_to_user_id ELSE @]

\* the guard of PATCH /tasks/:id without the assignee check
PatchTaskGuardNoAssigneeCheck(u, taskId, body) ==
  IF ~active[u] THEN ErrTrialExpired
  ELSE IF taskId \notin DOMAIN tasks THEN ErrNotFound("Task")
  ELSE LET task == tasks[taskId]
           member == findMember(task.focus_id, u) IN
    IF member = NULL THEN ErrForbidden
    ELSE IF ~patchTaskSchema(body) THEN ZodError
    ELSE IF member # "owner" THEN NoError
    ELSE IF Has(body, "assigned_to_user_id")
            /\ ~AssigneeRowExists(body.assigned_to_user_id) THEN PrismaError
    ELSE NoError

\* the guard with the subscription check made after the task lookup
PatchTaskGuardTrialLate(u, taskId, body) ==
  IF taskId \notin DOMAIN tasks THEN ErrNotFound("Task")
  ELSE IF ~active[u] THEN ErrTrialExpired
  ELSE LET task == tasks[taskId]
           member == findMember(task.focus_id, u) IN
    IF member = NULL THEN ErrForbidden
    ELSE IF ~patchTaskSchema(body) THEN ZodError
    ELSE IF member # "owner" THEN
      IF task.assigned_to_user_id # u THEN ErrNotAssignee ELSE NoError
    ELSE IF Has(body, "assigned_to_user_id")
            /\ ~AssigneeRowExists(body.assigned_to_user_id) THEN PrismaError
    ELSE NoError

\* the checks of PATCH /tasks/:id before the update, in the handler's order
PatchTaskGuard(u, taskId, body) ==
  IF ~active[u] THEN ErrTrialExpired
  ELSE IF taskId \notin DOMAIN tasks THEN ErrNotFound("Task")
  ELSE LET task == tasks[taskId]
           member == findMember(task.focus_id, u) IN
    IF member = NULL THEN ErrForbidden
    ELSE IF ~patchTaskSchema(body) THEN ZodError
    ELSE IF member # "owner" THEN
      IF task.assigned_to_user_id # u THEN ErrNotAssignee ELSE NoError
    ELSE IF Has(body, "assigned_to_user_id")
            /\ ~AssigneeRowExists(body.assigned_to_user_id) THEN PrismaError
    ELSE NoError

\* PATCH /tasks/:id
PatchTask(u, taskId, body) ==
  /\ last = NoReply
  /\ LET op == "PATCH /tasks/:id"
         err == PatchTaskGuard(u, taskId, body) IN
     IF err # NoError THEN Throw(op, u, taskId, err)
     ELSE LET task == tasks[taskId]
              owner == findMember(task.focus_id, u) = "owner"
              updated == IF owner THEN PatchTaskOwnerData(task, body)
                         ELSE PatchTaskMemberData(task, body)
          IN /\ tasks' = [tasks EXCEPT ![taskId] = updated]
             /\ last' = Reply(op, u, taskId, 200, [ok |-> TRUE, task |-> updated],
                              IF owner THEN <<"update_task">> ELSE <<>>)
             /\ UNCHANGED <<active, focuses, members, comments, threads,
                            nextFocusId, nextTaskId, now, handled, ai, job, cron, web, pr, notif>>

\* the guard of DELETE /tasks/:id without the owner check
DeleteTaskGuardNoOwnerCheck(u, taskId) ==
  IF taskId \notin DOMAIN tasks THEN ErrNotFound("Task")
  ELSE IF findMember(tasks[taskId].focus_id, u) = NULL THEN ErrForbidden
  ELSE NoError

\* the checks of DELETE /tasks/:id before the delete
DeleteTaskGuard(u, taskId) ==
  IF taskId \notin DOMAIN tasks THEN ErrNotFound("Task")
  ELSE IF findMember(tasks[taskId].focus_id, u) = NULL THEN ErrForbidden
  ELSE IF findMember(tasks[taskId].focus_id, u) # "owner" THEN ErrOwnerOnly
  ELSE NoError

\* DELETE /tasks/:id
DeleteTask(u, taskId) ==
  /\ last = NoReply
  /\ LET op == "DELETE /tasks/:id"
         err == DeleteTaskGuard(u, taskId) IN
     IF err # NoError THEN Throw(op, u, taskId, err)
     ELSE /\ tasks' = [t \in DOMAIN tasks \ {taskId} |-> tasks[t]]
          /\ comments' = SelectSeq(comments, LAMBDA c : c.task_id # taskId)
          /\ last' = Reply(op, u, taskId, 200, [ok |-> TRUE], <<"delete_task">>)
          /\ UNCHANGED <<active, focuses, members, threads,
                         nextFocusId, nextTaskId, now, handled, ai, job, cron, web, pr, notif>>

CommentBodies == { [text |-> "on it"], [text |-> ""] }

\* the guard of POST /tasks/:id/comments without the member check
AddCommentGuardNoMemberCheck(u, taskId, body) ==
  IF taskId \notin DOMAIN tasks THEN ErrNotFound("Task")
  ELSE IF ~(Has(body, "text") /\ Len(body.text) >= 1) THEN ZodError
  ELSE NoError

\* the checks of POST /tasks/:id/comments before the create
AddCommentGuard(u, taskId, body) ==
  IF taskId \notin DOMAIN tasks THEN ErrNotFound("Task")
  ELSE IF findMember(tasks[taskId].focus_id, u) = NULL THEN ErrForbidden
  ELSE IF ~(Has(body, "text") /\ Len(body.text) >= 1) THEN ZodError
  ELSE NoError

\* POST /tasks/:id/comments
AddComment(u, taskId, body) ==
  /\ last = NoReply
  /\ LET op == "POST /tasks/:id/comments"
         err == AddCommentGuard(u, taskId, body) IN
     IF err # NoError THEN Throw(op, u, taskId, err)
     ELSE /\ Len(comments) < MaxComments
          /\ LET comment == [task_id |-> taskId, author_user_id |-> u, text |-> body.text]
             IN /\ comments' = Append(comments, comment)
                /\ last' = Reply(op, u, taskId, 201, [ok |-> TRUE, comment |-> comment], <<>>)
                /\ UNCHANGED <<active, focuses, members, tasks, threads,
                               nextFocusId, nextTaskId, now, handled, ai, job, cron, web, pr, notif>>

\* --------------------------------------------------------------- openai.ts
\* A text is a sequence of lexical tokens; the string is their concatenation.
Fence    == "<fence>"   \* three backquotes
JsonWord == "json"
Space    == "\n"
ObjReply      == "{\"reply\":\"Plan\"}"
ObjReplyTasks == "{\"reply\":\"Plan\",\"tasks\":[{\"title\":\"Call supplier\"}]}"
ObjBadTasks   == "{\"reply\":\"Plan\",\"tasks\":\"none\"}"
ObjNoReply    == "{\"reply\":42}"
ObjNoReplyTasks == "{\"reply\":42,\"tasks\":[{\"title\":\"Call supplier\"}]}"
JsonNull      == "null"
Prose         == "Sure!"

Tokens == {Fence, JsonWord, Space, ObjReply, ObjReplyTasks, ObjBadTasks,
           ObjNoReply, ObjNoReplyTasks, JsonNull, Prose}

SuggestedTask == [title |-> "Call supplier"]

\* the value a token denotes as a JSON document: truthy is !!value;
\* replyIsString is typeof value.reply === "string" and reply that string;
\* tasksIsArray is Array.isArray(value.tasks) and tasks that array
JsonValue(tok) ==
  IF tok = ObjReply
    THEN [truthy |-> TRUE, replyIsString |-> TRUE, reply |-> <<"Plan">>,
          tasksIsArray |-> FALSE, tasks |-> <<>>]
  ELSE IF tok = ObjReplyTasks
    THEN [truthy |-> TRUE, replyIsString |-> TRUE, reply |-> <<"Plan">>,
          tasksIsArray |-> TRUE, tasks |-> <<SuggestedTask>>]
  ELSE IF tok = ObjBadTasks
    THEN [truthy |-> TRUE, replyIsString |-> TRUE, reply |-> <<"Plan">>,
          tasksIsArray |-> FALSE, tasks |-> <<>>]
  ELSE IF tok = ObjNoReply
    THEN [truthy |-> TRUE, replyIsString |-> FALSE, reply |-> <<>>,
          tasksIsArray |-> FALSE, tasks |-> <<>>]
  ELSE IF tok = ObjNoReplyTasks
    THEN [truthy |-> TRUE, replyIsString |-> FALSE, reply |-> <<>>,
          tasksIsArray |-> TRUE, tasks |-> <<SuggestedTask>>]
  ELSE [truthy |-> FALSE, replyIsString |-> FALSE, reply |-> <<>>,
        tasksIsArray |-> FALSE, tasks |-> <<>>]

IsJsonDocument(tok) ==
  tok \in {ObjReply, ObjReplyTasks, ObjBadTasks, ObjNoReply, ObjNoReplyTasks, JsonNull}

RECURSIVE TrimStart(_)
TrimStart(text) ==
  IF text # <<>> /\ Head(text) = Space THEN TrimStart(Tail(text)) ELSE text

RECURSIVE TrimEnd(_)
TrimEnd(text) ==
  IF text # <<>> /\ text[Len(text)] = Space
  THEN TrimEnd(SubSeq(text, 1, Len(text) - 1)) ELSE text

\* String.prototype.trim
Trim(text) == TrimEnd(TrimStart(text))

\* JSON.parse: whitespace around one JSON document; anything else throws
JsonParses(text) == Len(Trim(text)) = 1 /\ IsJsonDocument(Trim(text)[1])
JsonParse(text) == JsonValue(Trim(text)[1])

\* .replace(/^<fence>json\s*/i, ...): the first replace of safeJsonParse
StripJsonFence(text) ==
  IF Len(text) >= 2 /\ text[1] = Fence /\ text[2] = JsonWord
  THEN TrimStart(SubSeq(text, 3, Len(text))) ELSE text

\* .replace(/^<fence>\s*/i, ...): the second replace
StripFence(text) ==
  IF text # <<>> /\ text[1] = Fence THEN TrimStart(Tail(text)) ELSE text

\* .replace(/<fence>$/i, ...): the third replace
StripEndFence(text) ==
  IF text # <<>> /\ text[Len(text)] = Fence
  THEN SubSeq(text, 1, Len(text) - 1) ELSE text

\* the cleaned text of safeJsonParse's second attempt
Cleaned(text) == Trim(StripEndFence(StripFence(StripJsonFence(Trim(text)))))

\* null
NoValue == [truthy |-> FALSE, replyIsString |-> FALSE, reply |-> <<>>,
            tasksIsArray |-> FALSE, tasks |-> <<>>]

\* safeJsonParse without the second attempt
safeJsonParseNoRetry(text) ==
  IF JsonParses(text) THEN JsonParse(text) ELSE NoValue

\* safeJsonParse(text): the parsed value, or null (NoValue)
safeJsonParse(text) ==
  IF JsonParses(text) THEN JsonParse(text)
  ELSE IF JsonParses(Cleaned(text)) THEN JsonParse(Cleaned(text))
  ELSE NoValue

NoKeyReply    == <<"assistant is not connected">>
ProviderError == <<"could not get the assistant's answer">>
CouldNotParse == <<"could not parse the assistant's answer">>

\* callBusinessAssistant(messages), given what the provider answers:
\* hasKey: env.OPENAI_API_KEY is set; resOk: res.ok; content: the message
\* content of the first choice (empty when missing). hasTasks = FALSE: the
\* result's tasks is undefined.
callBusinessAssistant(hasKey, resOk, content) ==
  IF ~hasKey THEN [reply |-> NoKeyReply, hasTasks |-> FALSE, tasks |-> <<>>]
  ELSE IF ~resOk THEN [reply |-> ProviderError, hasTasks |-> FALSE, tasks |-> <<>>]
  ELSE LET parsed == safeJsonParse(content) IN
    IF ~parsed.truthy \/ ~parsed.replyIsString
    THEN [reply |-> IF content # <<>> THEN content ELSE CouldNotParse,
          hasTasks |-> FALSE, tasks |-> <<>>]
    ELSE [reply |-> parsed.reply, hasTasks |-> parsed.tasksIsArray,
          tasks |-> IF parsed.tasksIsArray THEN parsed.tasks ELSE <<>>]

\* ------------------------------------------------------------ assistant.ts
sendMessageSchema(body) == Has(body, "content") /\ Len(body.content) >= 1

planToTasksSchema(body) ==
  /\ Has(body, "tasks")
  /\ \A i \in 1..Len(body.tasks) :
       /\ createTaskSchema(body.tasks[i])
       /\ Has(body.tasks[i], "subtasks") =>
            \A j \in 1..Len(body.tasks[i].subtasks) :
              Len(body.tasks[i].subtasks[j].title) >= 1

MessageBodies == { [content |-> <<"How do I launch?">>], [content |-> <<>>] }

\* what the chat-completion provider answers to one call
ProviderAnswers ==
  { [hasKey |-> FALSE, resOk |-> TRUE, content |-> <<>>],
    [hasKey |-> TRUE, resOk |-> TRUE, content |-> <<Fence, JsonWord, ObjReplyTasks, Fence>>],
    [hasKey |-> TRUE, resOk |-> TRUE, content |-> <<Prose>>] }

PlanBodies ==
  { [tasks |-> << [title |-> "Launch", subtasks |-> << [title |-> "Landing page"] >>] >>],
    [tasks |-> << [title |-> "Launch", subtasks |-> << [title |-> ""] >>] >>],
    [tasks |-> << [title |-> "Launch"],
                  [title |-> "Call supplier", assigned_to_user_id |-> GhostUser] >>] }

\* GET /focuses/:id/assistant/thread
GetThread(u, focusId) ==
  /\ last = NoReply
  /\ LET op == "GET /focuses/:id/assistant/thread" IN
     IF findMember(focusId, u) = NULL
       THEN SendError(op, u, focusId, 403, [ok |-> FALSE, error |-> "forbidden"])
     ELSE /\ last' = Reply(op, u, focusId, 200,
                           IF focusId \notin DOMAIN threads
                           THEN [ok |-> TRUE, thread |-> NULL, messages |-> <<>>]
                           ELSE [ok |-> TRUE, thread |-> "thread",
                                 messages |-> threads[focusId]],
                           <<>>)
          /\ UNCHANGED <<store, now, handled, ai, job, cron, web, pr, notif>>

\* the checks of POST /focuses/:id/assistant/message before the first write:
\* the error reply sent, a ZodError thrown, or NoError
SendMessageGuard(u, focusId, body) ==
  IF ~active[u] THEN [status |-> 402, error |-> "trial_expired"]
  ELSE IF findMember(focusId, u) = NULL THEN [status |-> 403, error |-> "forbidden"]
  ELSE IF ~sendMessageSchema(body) THEN [status |-> 422, error |-> "zod"]
  ELSE IF focusId \notin DOMAIN threads THEN [status |-> 500, error |-> "missing_thread"]
  ELSE [status |-> 200, error |-> ""]

\* the prompt of POST message. An AssistantMessage row as the prompt reads
\* it: [role, content, created_at]
HistoryLimit == 16

\* the system message callBusinessAssistant puts first
SystemMessage == [role |-> "system", content |-> <<"business assistant, answer in JSON">>]

\* contextPreamble: the project fields and the role of the user
ContextPreamble(focus, role) ==
  <<"context",
    focus.title,
    IF focus.description # NULL THEN focus.description ELSE "",
    IF focus.stage # NULL THEN focus.stage ELSE "",
    IF focus.deadline_at # NullNum THEN "deadline date" ELSE "not set",
    role>>

\* the row of `rows` created last
Latest(rows) == CHOOSE r \in rows : \A x \in rows : x.created_at <= r.created_at

\* findMany({orderBy: {created_at: desc}, take}): the rows from the latest on
RECURSIVE FindLatest(_, _)
FindLatest(rows, take) ==
  IF rows = {} \/ take = 0 THEN <<>>
  ELSE <<Latest(rows)>> \o FindLatest(rows \ {Latest(rows)}, take - 1)

\* Array.prototype.reverse
Reverse(seq) == [i \in 1..Len(seq) |-> seq[Len(seq) + 1 - i]]

\* the row of `rows` created first
Earliest(rows) == CHOOSE r \in rows : \A x \in rows : r.created_at <= x.created_at

\* findMany({orderBy: {created_at: asc}, take}): the rows from the first on
RECURSIVE FindEarliest(_, _)
FindEarliest(rows, take) ==
  IF rows = {} \/ take = 0 THEN <<>>
  ELSE <<Earliest(rows)>> \o FindEarliest(rows \ {Earliest(rows)}, take - 1)

\* the history taken from the start of the thread
HistoryFromStart(rows) ==
  LET first == FindEarliest(rows, HistoryLimit) IN
  [i \in 1..Len(first) |-> [role |-> first[i].role, content |-> first[i].content]]

\* history: the last HistoryLimit rows of the thread, reversed, as
\* {role, content}
History(rows) ==
  LET last16 == Reverse(FindLatest(rows, HistoryLimit)) IN
  [i \in 1..Len(last16) |-> [role |-> last16[i].role, content |-> last16[i].content]]

\* body.messages of the provider request: [system, ...messages] with
\* messages = [{role: user, content: contextPreamble}, ...history]
ProviderMessages(focus, role, rows) ==
  <<SystemMessage, [role |-> "user", content |-> ContextPreamble(focus, role)]>>
    \o History(rows)

\* the assistant message without the suggested tasks
AssistantMessageNoTasks(res) ==
  [role |-> "assistant", content |-> res.reply, kind |-> "ai_response",
   suggested_tasks |-> <<>>]

\* the assistant row POST message creates from the result ai of
\* callBusinessAssistant: content ai.reply, meta.suggested_tasks ai.tasks ?? []
AssistantMessage(res) ==
  [role |-> "assistant", content |-> res.reply, kind |-> "ai_response",
   suggested_tasks |-> IF res.hasTasks THEN res.tasks ELSE <<>>]

\* POST /focuses/:id/assistant/message
SendMessage(u, focusId, body, answer) ==
  /\ last = NoReply
  /\ LET op == "POST /focuses/:id/assistant/message"
         g == SendMessageGuard(u, focusId, body) IN
     IF g.error = "zod" THEN Throw(op, u, focusId, ZodError)
     ELSE IF g.status # 200
       THEN SendError(op, u, focusId, g.status, [ok |-> FALSE, error |-> g.error])
     ELSE
       /\ Len(threads[focusId]) < 2 * MaxExchanges
       /\ LET userMsg == [role |-> "user", content |-> body.content,
                          kind |-> NULL, suggested_tasks |-> <<>>]
              res == callBusinessAssistant(answer.hasKey, answer.resOk, answer.content)
              msg == AssistantMessage(res)
          IN /\ threads' = [threads EXCEPT ![focusId] = @ \o <<userMsg, msg>>]
             /\ last' = Reply(op, u, focusId, 200, [ok |-> TRUE, message |-> msg],
                              <<"ai_message_sent", "ai_message_received">>)
             /\ UNCHANGED <<active, focuses, members, tasks, comments,
                            nextFocusId, nextTaskId, now, handled, ai, job, cron, web, pr, notif>>

\* the checks of plan_to_tasks without the owner check
PlanToTasksGuardNoOwnerCheck(u, focusId, body) ==
  IF ~active[u] THEN [status |-> 402, error |-> "trial_expired"]
  ELSE IF findMember(focusId, u) = NULL THEN [status |-> 403, error |-> "forbidden"]
  ELSE IF ~planToTasksSchema(body) THEN [status |-> 422, error |-> "zod"]
  ELSE [status |-> 200, error |-> ""]

\* the checks of POST /focuses/:id/assistant/plan_to_tasks before the
\* transaction
PlanToTasksGuard(u, focusId, body) ==
  IF ~active[u] THEN [status |-> 402, error |-> "trial_expired"]
  ELSE IF findMember(focusId, u) = NULL THEN [status |-> 403, error |-> "forbidden"]
  ELSE IF findMember(focusId, u) # "owner" THEN [status |-> 403, error |-> "owner_only"]
  ELSE IF ~planToTasksSchema(body) THEN [status |-> 422, error |-> "zod"]
  ELSE [status |-> 200, error |-> ""]

\* the task row tx.task.create and tx.subTask.createMany make for one entry
PlanTask(u, focusId, t) ==
  [NewTask(u, focusId, t) EXCEPT
     !.subtasks = IF Has(t, "subtasks")
                  THEN [j \in 1..Len(t.subtasks) |-> t.subtasks[j].title] ELSE <<>>]

\* POST /focuses/:id/assistant/plan_to_tasks, task ids up to maxId being free
PlanToTasksWithin(u, focusId, body, maxId) ==
  /\ last = NoReply
  /\ LET op == "POST /focuses/:id/assistant/plan_to_tasks"
         g == PlanToTasksGuard(u, focusId, body) IN
     IF g.error = "zod" THEN Throw(op, u, focusId, ZodError)
     ELSE IF g.status # 200
       THEN SendError(op, u, focusId, g.status, [ok |-> FALSE, error |-> g.error])
     ELSE IF \E i \in 1..Len(body.tasks) :
               ~AssigneeRowExists(Get(body.tasks[i], "assigned_to_user_id", NULL))
       THEN Throw(op, u, focusId, PrismaError)   \* the transaction rolls back
     ELSE
       /\ nextTaskId + Len(body.tasks) - 1 <= maxId
       /\ LET n == Len(body.tasks)
              created == [i \in 1..n |-> PlanTask(u, focusId, body.tasks[i])]
              ids == nextTaskId .. (nextTaskId + n - 1)
          IN /\ tasks' = [t \in DOMAIN tasks \cup ids |->
                            IF t \in ids THEN created[t - nextTaskId + 1] ELSE tasks[t]]
             /\ nextTaskId' = nextTaskId + n
             /\ last' = [op |-> op, user |-> u, target |-> focusId, status |-> 200,
                          body |-> [ok |-> TRUE, tasks |-> created],
                          events |-> <<"bulk_tasks_created">>, request |-> body]
             /\ UNCHANGED <<active, focuses, members, comments, threads,
                            nextFocusId, now, handled, ai, job, cron, web, pr, notif>>

\* POST /focuses/:id/assistant/plan_to_tasks
PlanToTasks(u, focusId, body) == PlanToTasksWithin(u, focusId, body, MaxTasks)

\* --------------------------------------------- the environment of the API
\* POST /invites/:code/join: the user becomes a member of the invite's focus
JoinByCode(u, focusId) ==
  /\ last = NoReply
  /\ focusId \in DOMAIN focuses
  /\ <<focusId, u>> \notin DOMAIN members
  /\ members' = [k \in DOMAIN members \cup {<<focusId, u>>} |->
                   IF k = <<focusId, u>> THEN "member" ELSE members[k]]
  /\ last' = Reply("POST /invites/:code/join", u, focusId, 200, [ok |-> TRUE], <<>>)
  /\ UNCHANGED <<active, focuses, tasks, comments, threads,
                 nextFocusId, nextTaskId, now, handled, ai, job, cron, web, pr, notif>>

\* the subscription or trial of a user ends or is renewed
SubscriptionChange(u) ==
  /\ last = NoReply
  /\ active' = [active EXCEPT ![u] = ~@]
  /\ UNCHANGED <<focuses, members, tasks, comments, threads,
                 nextFocusId, nextTaskId, now, last, handled, ai, job, cron, web, pr, notif>>

\* apiFetch of the web client: the reply is read and the call returns or throws
ApiFetch ==
  /\ last # NoReply
  /\ last' = NoReply
  /\ UNCHANGED <<store, now, handled, ai, job, cron, web, pr, notif>>

\* ------------------------------------------------------- worker/main.ts
\* NotificationLog rows: [user_id, type, status, error]
JobTypes == {"deadline_reminder", "invite_accepted"}
LogStatuses == {"queued", "sent", "failed"}

TelegramError == <<"telegram: chat not found">>
DbError == <<"prisma: connection lost">>

\* the where of both updateMany calls: {user_id, status: queued, type}
JobLogMatches(row, data) ==
  row.user_id = data.user_id /\ row.status = "queued" /\ row.type = data.type

\* prisma.notificationLog.updateMany({where, data: {status, error}})
UpdateManyLogs(logs, data, status, error) ==
  [i \in 1..Len(logs) |->
     IF JobLogMatches(logs[i], data)
     THEN [logs[i] EXCEPT !.status = status, !.error = error]
     ELSE logs[i]]

\* the catch block of the processor: e is the error caught
JobCatch(data, logs, e, delivered, catchUpdateFails) ==
  IF data.user_id # NULL /\ catchUpdateFails
  THEN [logs |-> logs, result |-> "raised", error |-> DbError, delivered |-> delivered]
  ELSE [logs |-> IF data.user_id # NULL
                 THEN UpdateManyLogs(logs, data, "failed", e) ELSE logs,
        result |-> "raised", error |-> e, delivered |-> delivered]

\* the processor reporting success whatever the send did
NotificationProcessorSwallows(data, logs, sendFails, tryUpdateFails, catchUpdateFails) ==
  [logs |-> IF data.user_id # NULL
            THEN UpdateManyLogs(logs, data, IF sendFails THEN "failed" ELSE "sent",
                                IF sendFails THEN TelegramError ELSE <<>>)
            ELSE logs,
   result |-> "ok", error |-> <<>>, delivered |-> ~sendFails]

\* the processor of the notification queue, for one job: sendFails says
\* bot.telegram.sendMessage rejects, tryUpdateFails and catchUpdateFails that
\* the updateMany of the try block and of the catch block reject. result is
\* what the queue is told: "ok" (the processor returned) or "raised"
NotificationProcessor(data, logs, sendFails, tryUpdateFails, catchUpdateFails) ==
  IF sendFails THEN JobCatch(data, logs, TelegramError, FALSE, catchUpdateFails)
  ELSE IF data.user_id # NULL /\ tryUpdateFails
    THEN JobCatch(data, logs, DbError, TRUE, catchUpdateFails)
  ELSE [logs |-> IF data.user_id # NULL
                 THEN UpdateManyLogs(logs, data, "sent", <<>>) ELSE logs,
        result |-> "ok", error |-> <<>>, delivered |-> TRUE]

\* the cron jobs. Time is counted in hours; a Task row as the jobs read it:
\* [status, due_at, assigned_to], assigned_to the included User row
\* [id, tg_id], or NoAssignee when assigned_to_user_id is null
HoursPerDay == 24
DeadlineHour == 9
OverdueHour == 10
NoAssignee == [id |-> NULL, tg_id |-> NullNum]

\* date.setDate(date.getDate() + days)
AddDays(date, days) == date + days * HoursPerDay

\* the where of the deadline reminder job, run at `run` with DEADLINE_DAYS days
DeadlineWhere(row, run, days) ==
  /\ row.due_at # NullNum
  /\ row.due_at >= AddDays(run, days - 1)
  /\ row.due_at <= AddDays(run, days + 1)
  /\ row.status \notin {"done", "canceled"}
  /\ row.assigned_to # NoAssignee

\* the where of the overdue job without the status filter
OverdueWhereAnyStatus(row, run) ==
  /\ row.due_at # NullNum
  /\ row.due_at < run
  /\ row.assigned_to # NoAssignee

\* the where of the overdue job, run at `run`
OverdueWhere(row, run) ==
  /\ row.due_at # NullNum
  /\ row.due_at < run
  /\ row.status \notin {"done", "canceled"}
  /\ row.assigned_to # NoAssignee

\* prisma.task.findMany: the indices of the rows the where selects, in order
RECURSIVE FindMany(_, _)
FindMany(matches, n) ==
  IF n = 0 THEN <<>>
  ELSE FindMany(matches, n - 1) \o (IF matches[n] THEN <<n>> ELSE <<>>)

\* what a run has done so far: the rows a send was attempted for, the rows
\* whose message was delivered, the NotificationLog rows written, and the
\* failure met at each row ("none", "log": the log create rejects, "send":
\* sendMessage rejects, "update": the log update after the send rejects)
NoRun == [attempted |-> <<>>, delivered |-> <<>>, logs |-> <<>>]
Failures == {"none", "log", "send", "update"}

\* one pass of the deadline reminder loop body for row i
RemindOne(i, row, failure, acc) ==
  IF row.assigned_to.tg_id = NullNum THEN acc
  ELSE IF failure = "log" THEN acc
  ELSE IF failure = "send"
    THEN [acc EXCEPT !.attempted = Append(@, i),
                     !.logs = Append(@, [user_id |-> row.assigned_to.id,
                                         type |-> "deadline_reminder",
                                         task |-> i, status |-> "queued"])]
  ELSE IF failure = "update"
    THEN [acc EXCEPT !.attempted = Append(@, i),
                     !.delivered = Append(@, i),
                     !.logs = Append(@, [user_id |-> row.assigned_to.id,
                                         type |-> "deadline_reminder",
                                         task |-> i, status |-> "queued"])]
  ELSE [acc EXCEPT !.attempted = Append(@, i),
                   !.delivered = Append(@, i),
                   !.logs = Append(@, [user_id |-> row.assigned_to.id,
                                       type |-> "deadline_reminder",
                                       task |-> i, status |-> "sent"])]

\* one pass of the overdue loop body for row i
NotifyOverdueOne(i, row, failure, acc) ==
  IF row.assigned_to.tg_id = NullNum THEN acc
  ELSE IF failure = "send" THEN [acc EXCEPT !.attempted = Append(@, i)]
  ELSE [acc EXCEPT !.attempted = Append(@, i), !.delivered = Append(@, i)]

\* the loop of a job leaving at the first failure
RECURSIVE CronLoopStopsAtFailure(_, _, _, _, _)
CronLoopStopsAtFailure(kind, rows, selected, failures, acc) ==
  IF selected = <<>> THEN acc
  ELSE LET i == Head(selected)
           next == IF kind = "deadline" THEN RemindOne(i, rows[i], failures[i], acc)
                   ELSE NotifyOverdueOne(i, rows[i], failures[i], acc) IN
       IF rows[i].assigned_to.tg_id # NullNum /\ failures[i] # "none" THEN next
       ELSE CronLoopStopsAtFailure(kind, rows, Tail(selected), failures, next)

\* for (const task of tasks) { ... try { ... } catch { console.error } }
RECURSIVE CronLoop(_, _, _, _, _)
CronLoop(kind, rows, selected, failures, acc) ==
  IF selected = <<>> THEN acc
  ELSE LET i == Head(selected)
           next == IF kind = "deadline" THEN RemindOne(i, rows[i], failures[i], acc)
                   ELSE NotifyOverdueOne(i, rows[i], failures[i], acc) IN
       CronLoop(kind, rows, Tail(selected), failures, next)

\* ------------------------------------------------------------ web/App.tsx
\* a Task as the client holds it: [id, status, rev]; rev stands for the other
\* fields of the task, "v1" as loaded and "v2" as the server returns them
\* after a change made elsewhere

\* const next = t.status === done ? todo : done
NextStatus(t) == IF t.status = "done" THEN "todo" ELSE "done"

\* setTasks(prev => prev.map(x => x.id === t.id ? { ...x, status: next } : x))
OptimisticTasks(prev, t, next) ==
  [i \in 1..Len(prev) |->
     IF prev[i].id = t.id THEN [prev[i] EXCEPT !.status = next] ELSE prev[i]]

\* setTasks(prev => prev.map(x => x.id === t.id ? updated : x))
ReplacedTasks(prev, t, updated) ==
  [i \in 1..Len(prev) |-> IF prev[i].id = t.id THEN updated ELSE prev[i]]

\* the catch block leaving the list as the optimistic update made it
RestoredTasksKeepsOptimistic(prev, t) == prev

\* setTasks(prev => prev.map(x => x.id === t.id ? t : x))
RestoredTasks(prev, t) ==
  [i \in 1..Len(prev) |-> IF prev[i].id = t.id THEN t ELSE prev[i]]

\* what apiFetch can throw: an ApiError [api, code, message] or, api = FALSE,
\* the TypeError of fetch
FetchErrors ==
  { [api |-> TRUE, code |-> "not_assignee", message |-> "Only the task assignee can do this"],
    [api |-> TRUE, code |-> "unknown_error", message |-> ""],
    [api |-> FALSE, code |-> NULL, message |-> "Failed to fetch"] }

\* friendlyError(e): the text shown
friendlyError(e) ==
  IF e.api THEN
    IF e.code = "trial_expired" THEN "trial expired, please subscribe"
    ELSE IF e.code = "unauthorized" THEN "authorization required"
    ELSE IF e.code = "forbidden" THEN "no access to this resource"
    ELSE IF e.code = "owner_only" THEN "only the project owner can do this"
    ELSE IF e.code = "not_found" THEN "resource not found"
    ELSE IF e.code = "validation_error" THEN "invalid data"
    ELSE IF e.code = "ai_error" THEN "assistant unavailable"
    ELSE IF e.message # "" THEN e.message ELSE "an error happened"
  ELSE IF e.message = "Failed to fetch" THEN "could not reach the server"
  ELSE IF e.message # "" THEN e.message ELSE "an unknown error happened"

\* ------------------------------------------------------ the specifications

\* no error handled yet / no provider call made yet
NotHandled == [status |-> 0, body |-> [ok |-> TRUE], logged |-> FALSE, events |-> <<>>]
NotCalled  == [reply |-> <<>>, hasTasks |-> FALSE, tasks |-> <<>>]
NoMessage  == [role |-> NULL, content |-> <<>>, kind |-> NULL, suggested_tasks |-> <<>>]

ApiInit ==
  /\ active = [u \in Users |-> TRUE]
  /\ focuses = <<>>
  /\ members = <<>>
  /\ tasks = <<>>
  /\ comments = <<>>
  /\ threads = <<>>
  /\ nextFocusId = 1
  /\ nextTaskId = 1
  /\ now = 20239
  /\ last = NoReply

\* the parts of the system a specification leaves at rest
ErrIdle ==
  handled = [err |-> NoError, logEventFails |-> FALSE, done |-> TRUE,
             reply |-> NotHandled]
AiIdle ==
  ai = [hasKey |-> FALSE, resOk |-> FALSE, content |-> <<>>, done |-> TRUE,
        result |-> NotCalled, message |-> NoMessage]
JobIdle == job = [done |-> TRUE]
CronIdle == cron = [done |-> TRUE]
WebIdle == web = [done |-> TRUE]
PromptIdle == pr = [done |-> TRUE]
NotifIdle == notif = [done |-> TRUE]

Init ==
  /\ ApiInit /\ ErrIdle /\ AiIdle /\ JobIdle /\ CronIdle /\ WebIdle /\ PromptIdle /\ NotifIdle

\* one request at a time: a handler runs when the reply to the last request
\* has been taken
Next ==
  \/ \E u \in Users, body \in CreateFocusBodies : CreateFocus(u, body)
  \/ \E u \in Users, f \in FocusIds : GetFocus(u, f)
  \/ \E u \in Users, f \in FocusIds, body \in PatchFocusBodies : PatchFocus(u, f, body)
  \/ \E u \in Users, f \in FocusIds : DeleteFocus(u, f)
  \/ \E u \in Users, f \in FocusIds, q \in Queries : ListTasks(u, f, q)
  \/ \E u \in Users, f \in FocusIds, body \in CreateTaskBodies : CreateTask(u, f, body)
  \/ \E u \in Users, t \in TaskIds, body \in PatchTaskBodies : PatchTask(u, t, body)
  \/ \E u \in Users, t \in TaskIds : DeleteTask(u, t)
  \/ \E u \in Users, t \in TaskIds, body \in CommentBodies : AddComment(u, t, body)
  \/ \E u \in Users, f \in FocusIds : GetThread(u, f)
  \/ \E u \in Users, f \in FocusIds, body \in MessageBodies, answer \in ProviderAnswers :
       SendMessage(u, f, body, answer)
  \/ \E u \in Users, f \in FocusIds, body \in PlanBodies : PlanToTasks(u, f, body)
  \/ \E u \in Users, f \in FocusIds : JoinByCode(u, f)
  \/ \E u \in Users : SubscriptionChange(u)
  \/ ApiFetch

Spec == Init /\ [][Next]_vars

\* globalErrorHandler on its own: every error a route or Fastify can hand it
HttpStatuses == {401, 402, 403, 404, 409, 410, 422, 500, 502}
StatusCodes  == {NullNum, 400, 404, 413, 429, 499, 500, 501, 503}

ErrorInputs ==
  {ZodError} \cup Errors
  \cup {AppError(c, st, "message") : c \in ErrorCodes, st \in HttpStatuses}
  \cup {OtherError(sc, "boom") : sc \in StatusCodes}

InitErr ==
  /\ ApiInit /\ AiIdle /\ JobIdle /\ CronIdle /\ WebIdle /\ PromptIdle /\ NotifIdle
  /\ \E err \in ErrorInputs, logEventFails \in BOOLEAN :
       handled = [err |-> err, logEventFails |-> logEventFails, done |-> FALSE,
                  reply |-> NotHandled]

HandleError ==
  /\ ~handled.done
  /\ handled' = [handled EXCEPT
                   !.done = TRUE,
                   !.reply = globalErrorHandler(handled.err, handled.logEventFails)]
  /\ UNCHANGED <<store, now, last, ai, job, cron, web, pr, notif>>

SpecErr == InitErr /\ [][HandleError]_vars

\* callBusinessAssistant as POST message calls it, and the assistant row made
\* from its result: every provider response of up to MaxLen tokens
Texts == UNION {[1..n -> Tokens] : n \in 0..MaxLen}

AiInputs ==
  { [hasKey |-> FALSE, resOk |-> TRUE, content |-> <<>>],
    [hasKey |-> TRUE, resOk |-> FALSE, content |-> <<>>] }
  \cup { [hasKey |-> TRUE, resOk |-> TRUE, content |-> c] : c \in Texts }

InitAi ==
  /\ ApiInit /\ ErrIdle /\ JobIdle /\ CronIdle /\ WebIdle /\ PromptIdle /\ NotifIdle
  /\ \E in \in AiInputs :
       ai = [hasKey |-> in.hasKey, resOk |-> in.resOk, content |-> in.content,
             done |-> FALSE, result |-> NotCalled, message |-> NoMessage]

CallAssistant ==
  /\ ~ai.done
  /\ ai' = [ai EXCEPT
              !.done = TRUE,
              !.result = callBusinessAssistant(ai.hasKey, ai.resOk, ai.content),
              !.message = AssistantMessage(
                            callBusinessAssistant(ai.hasKey, ai.resOk, ai.content))]
  /\ UNCHANGED <<store, now, last, handled, job, cron, web, pr, notif>>

SpecAi == InitAi /\ [][CallAssistant]_vars

\* GET /focuses/:id/tasks on its own: the queries of both users over every
\* small Task table of two focuses, focus 1 owned by u1 with u2 as member,
\* focus 2 owned by u2
ListedFocusIds == {1, 2}
ListedRows ==
  { NewTask("u1", f, [title |-> "Call supplier", status |-> st, priority |-> pri,
                      assigned_to_user_id |-> a]) :
      f \in ListedFocusIds, st \in {"todo", "done"}, pri \in {"medium", "urgent"},
      a \in {NULL} \cup Users }
ListedTables == UNION {[1..n -> ListedRows] : n \in 0..MaxListed}

InitList ==
  /\ ErrIdle /\ AiIdle /\ JobIdle /\ CronIdle /\ WebIdle /\ PromptIdle /\ NotifIdle
  /\ active = [u \in Users |-> TRUE]
  /\ focuses = [f \in ListedFocusIds |->
                  NewFocus(IF f = 1 THEN "u1" ELSE "u2", [title |-> "Shop"])]
  /\ members = [k \in {<<1, "u1">>, <<1, "u2">>, <<2, "u2">>} |->
                  IF k = <<1, "u2">> THEN "member" ELSE "owner"]
  /\ tasks \in ListedTables
  /\ comments = <<>>
  /\ threads = [f \in ListedFocusIds |-> <<>>]
  /\ nextFocusId = 3
  /\ nextTaskId = Len(tasks) + 1
  /\ now = 20239
  /\ last = NoReply

NextList ==
  \/ \E u \in Users, f \in ListedFocusIds, q \in Queries : ListTasks(u, f, q)
  \/ ApiFetch

SpecList == InitList /\ [][NextList]_vars

\* plan_to_tasks on its own: plans of up to MaxPlanned tasks sent by both
\* users, active or not, to two focuses, focus 1 owned by u1 with u2 as
\* member, focus 2 owned by u2
PlanItems ==
  { [title |-> "Launch"],
    [title |-> "Launch", subtasks |-> << [title |-> "Landing page"] >>],
    [title |-> "Call supplier", assigned_to_user_id |-> GhostUser],
    [title |-> ""] }
Plans == { [tasks |-> items] : items \in UNION {[1..n -> PlanItems] : n \in 1..MaxPlanned} }

InitPlan ==
  /\ ErrIdle /\ AiIdle /\ JobIdle /\ CronIdle /\ WebIdle /\ PromptIdle /\ NotifIdle
  /\ active \in [Users -> BOOLEAN]
  /\ focuses = [f \in ListedFocusIds |->
                  NewFocus(IF f = 1 THEN "u1" ELSE "u2", [title |-> "Shop"])]
  /\ members = [k \in {<<1, "u1">>, <<1, "u2">>, <<2, "u2">>} |->
                  IF k = <<1, "u2">> THEN "member" ELSE "owner"]
  /\ tasks \in {<<>>, <<NewTask("u1", 1, [title |-> "Call supplier"])>>}
  /\ comments = <<>>
  /\ threads = [f \in ListedFocusIds |-> <<>>]
  /\ nextFocusId = 3
  /\ nextTaskId = Len(tasks) + 1
  /\ now = 20239
  /\ last = NoReply

NextPlan ==
  \/ \E u \in Users, f \in ListedFocusIds, body \in Plans :
       PlanToTasksWithin(u, f, body, MaxPlanned + 1)
  \/ ApiFetch

SpecPlan == InitPlan /\ [][NextPlan]_vars

\* the prompt of POST message on its own: threads of up to MaxThread rows,
\* row k created at time k with content k
ThreadRows(n) ==
  { [role |-> IF k % 2 = 1 THEN "user" ELSE "assistant", content |-> <<"message", k>>,
     created_at |-> k] : k \in 1..n }
PromptFocuses ==
  { NewFocus("u1", [title |-> "Shop"]),
    [NewFocus("u1", [title |-> "Shop", description |-> "d", stage |-> "growth"])
       EXCEPT !.deadline_at = 20453] }

InitPrompt ==
  /\ ApiInit /\ ErrIdle /\ AiIdle /\ JobIdle /\ CronIdle /\ WebIdle /\ NotifIdle
  /\ \E n \in 0..MaxThread, focus \in PromptFocuses, role \in {"owner", "member"},
        hasKey \in BOOLEAN :
       pr = [done |-> FALSE, rows |-> ThreadRows(n), focus |-> focus, role |-> role,
             hasKey |-> hasKey, content |-> <<"How do I launch?">>,
             sent |-> <<>>]

\* POST message from the create of the user message to the provider request
BuildPrompt ==
  /\ ~pr.done
  /\ LET userMsg == [role |-> "user", content |-> pr.content,
                     created_at |-> Cardinality(pr.rows) + 1]
         rows == pr.rows \cup {userMsg} IN
     pr' = [pr EXCEPT !.done = TRUE, !.rows = rows,
                      !.sent = IF pr.hasKey
                               THEN ProviderMessages(pr.focus, pr.role, rows)
                               ELSE <<>>]
  /\ UNCHANGED <<store, now, last, handled, ai, job, cron, web, notif>>

SpecPrompt == InitPrompt /\ [][BuildPrompt]_vars

\* the notification processor on its own: one job against every small set
\* of NotificationLog rows
LogRows == [user_id : Users, type : JobTypes, status : {"queued", "sent"},
            error : {<<>>}]
LogTables == UNION {[1..n -> LogRows] : n \in 0..MaxLogs}
JobData == [tg_id : {1001}, type : JobTypes, user_id : {NULL, "u1"}]

InitJob ==
  /\ ApiInit /\ ErrIdle /\ AiIdle /\ CronIdle /\ WebIdle /\ PromptIdle /\ NotifIdle
  /\ \E data \in JobData, logs \in LogTables,
        sendFails \in BOOLEAN, tryUpdateFails \in BOOLEAN, catchUpdateFails \in BOOLEAN :
       job = [done |-> FALSE, data |-> data, before |-> logs, logs |-> logs,
              sendFails |-> sendFails, tryUpdateFails |-> tryUpdateFails,
              catchUpdateFails |-> catchUpdateFails,
              result |-> "none", error |-> <<>>, delivered |-> FALSE]

ProcessJob ==
  /\ ~job.done
  /\ LET r == NotificationProcessor(job.data, job.logs, job.sendFails,
                                    job.tryUpdateFails, job.catchUpdateFails) IN
       job' = [job EXCEPT !.done = TRUE, !.logs = r.logs, !.result = r.result,
                          !.error = r.error, !.delivered = r.delivered]
  /\ UNCHANGED <<store, now, last, handled, ai, cron, web, pr, notif>>

SpecJob == InitJob /\ [][ProcessJob]_vars

\* the cron jobs on their own: one run of one job over every small table of
\* Task rows, on day RunDay
RunDay == 100
AtHour(day, hour) == day * HoursPerDay + hour
DueDates == {NullNum, AtHour(RunDay, 8), AtHour(RunDay, 10),
             AtHour(RunDay + 1, 12), AtHour(RunDay + 2, 8)}
AssigneeRows == {NoAssignee, [id |-> "u1", tg_id |-> 1001],
                 [id |-> "u2", tg_id |-> NullNum]}
TaskRows == [status : {"todo", "done", "canceled"}, due_at : DueDates,
             assigned_to : AssigneeRows]
TaskTables == UNION {[1..n -> TaskRows] : n \in 0..MaxRows}
ReminderDays == {1, 2}

InitCron ==
  /\ ApiInit /\ ErrIdle /\ AiIdle /\ JobIdle /\ WebIdle /\ PromptIdle /\ NotifIdle
  /\ \E rows \in TaskTables, days \in ReminderDays :
       cron = [done |-> FALSE, kind |-> "none", run |-> 0, days |-> days,
               rows |-> rows, selected |-> <<>>,
               failures |-> [i \in 1..Len(rows) |-> "none"], out |-> NoRun]

\* the failures a run can meet, row by row: none at a row the run does not
\* try to notify, and only send failures in the overdue job, which writes no
\* log
FailureChoices(kind, rows, selected) ==
  {failures \in [1..Len(rows) -> Failures] :
     \A i \in 1..Len(rows) :
       failures[i] # "none" =>
         /\ \E k \in 1..Len(selected) : selected[k] = i
         /\ rows[i].assigned_to.tg_id # NullNum
         /\ kind = "overdue" => failures[i] = "send"}

\* cron.schedule at 9:00: one run of the deadline reminder job
DeadlineReminderCron ==
  /\ ~cron.done
  /\ LET run == AtHour(RunDay, DeadlineHour)
         selected == FindMany([i \in 1..Len(cron.rows) |->
                                 DeadlineWhere(cron.rows[i], run, cron.days)],
                              Len(cron.rows)) IN
       \E failures \in FailureChoices("deadline", cron.rows, selected) :
         cron' = [cron EXCEPT !.done = TRUE, !.kind = "deadline", !.run = run,
                              !.selected = selected, !.failures = failures,
                              !.out = CronLoop("deadline", cron.rows, selected,
                                               failures, NoRun)]
  /\ UNCHANGED <<store, now, last, handled, ai, job, web, pr, notif>>

\* cron.schedule at 10:00: one run of the overdue job
OverdueCron ==
  /\ ~cron.done
  /\ LET run == AtHour(RunDay, OverdueHour)
         selected == FindMany([i \in 1..Len(cron.rows) |->
                                 OverdueWhere(cron.rows[i], run)],
                              Len(cron.rows)) IN
       \E failures \in FailureChoices("overdue", cron.rows, selected) :
         cron' = [cron EXCEPT !.done = TRUE, !.kind = "overdue", !.run = run,
                              !.selected = selected, !.failures = failures,
                              !.out = CronLoop("overdue", cron.rows, selected,
                                               failures, NoRun)]
  /\ UNCHANGED <<store, now, last, handled, ai, job, web, pr, notif>>

SpecCron == InitCron /\ [][DeadlineReminderCron \/ OverdueCron]_vars

\* the worker await by await: up to MaxJobs queue jobs and the deadline
\* reminder handling one task of user u1, all on one NotificationLog table.
\* A row is [user_id, type, status, error] with made_for, the notification it
\* was created for (a job number, Reminder for the reminder), and set_by, the
\* one whose update set its status last. sends[k] is what became of the
\* Telegram send of notification k: "none", "ok" or "failed"
Reminder == 0

QueuedRow(user, type, k) ==
  [user_id |-> user, type |-> type, status |-> "queued", error |-> <<>>,
   made_for |-> k, set_by |-> k]

\* the rows an update changed carry who changed them
SetBy(before, after, k) ==
  [i \in 1..Len(after) |->
     IF after[i].status # before[i].status THEN [after[i] EXCEPT !.set_by = k]
     ELSE after[i]]

\* job.data of the jobs waiting in the queue
QueueJobs(n) == [1..n -> [user_id : {"u1", "u2", NULL}, type : JobTypes]]

\* the row queued with each job that carries a user_id
RECURSIVE JobRows(_, _)
JobRows(data, n) ==
  IF n = 0 THEN <<>>
  ELSE JobRows(data, n - 1)
         \o (IF data[n].user_id # NULL
             THEN <<QueuedRow(data[n].user_id, data[n].type, n)>> ELSE <<>>)

InitNotif ==
  /\ ApiInit /\ ErrIdle /\ AiIdle /\ JobIdle /\ CronIdle /\ WebIdle /\ PromptIdle
  /\ \E n \in 1..MaxJobs : \E data \in QueueJobs(n) :
       notif = [done |-> FALSE,
                logs |-> JobRows(data, n),
                jobs |-> [j \in 1..n |-> [data |-> data[j], pc |-> "send", e |-> <<>>]],
                cron |-> [user |-> "u1", pc |-> "create", log |-> 0],
                sends |-> [k \in 0..n |-> "none"]]

NotifFrame ==
  UNCHANGED <<store, now, last, handled, ai, job, cron, web, pr>>

\* the processor of job j up to the end of await bot.telegram.sendMessage
JobSend(j) ==
  /\ ~notif.done /\ j \in DOMAIN notif.jobs /\ notif.jobs[j].pc = "send"
  /\ \E sendFails \in BOOLEAN :
       notif' = [notif EXCEPT
         !.sends[j] = IF sendFails THEN "failed" ELSE "ok",
         !.jobs[j].e = IF sendFails THEN TelegramError ELSE <<>>,
         !.jobs[j].pc = IF sendFails THEN "catch"
                        ELSE IF notif.jobs[j].data.user_id # NULL THEN "update"
                        ELSE "returned"]
  /\ NotifFrame

\* the updateMany of the try block of job j
JobUpdate(j) ==
  /\ ~notif.done /\ j \in DOMAIN notif.jobs /\ notif.jobs[j].pc = "update"
  /\ \E updateFails \in BOOLEAN :
       IF updateFails
       THEN notif' = [notif EXCEPT !.jobs[j].e = DbError, !.jobs[j].pc = "catch"]
       ELSE notif' = [notif EXCEPT
              !.logs = SetBy(@, UpdateManyLogs(@, notif.jobs[j].data, "sent", <<>>), j),
              !.jobs[j].pc = "returned"]
  /\ NotifFrame

\* the catch block of job j
JobCatchUpdate(j) ==
  /\ ~notif.done /\ j \in DOMAIN notif.jobs /\ notif.jobs[j].pc = "catch"
  /\ \E updateFails \in BOOLEAN :
       IF notif.jobs[j].data.user_id = NULL \/ updateFails
       THEN notif' = [notif EXCEPT !.jobs[j].pc = "raised"]
       ELSE notif' = [notif EXCEPT
              !.logs = SetBy(@, UpdateManyLogs(@, notif.jobs[j].data, "failed",
                                               notif.jobs[j].e), j),
              !.jobs[j].pc = "raised"]
  /\ NotifFrame

\* the reminder's prisma.notificationLog.create for the task
CronCreate ==
  /\ ~notif.done /\ notif.cron.pc = "create"
  /\ \E createFails \in BOOLEAN :
       IF createFails
       THEN notif' = [notif EXCEPT !.cron.pc = "handled"]
       ELSE notif' = [notif EXCEPT
              !.logs = Append(@, QueuedRow(notif.cron.user, "deadline_reminder", Reminder)),
              !.cron.log = Len(notif.logs) + 1,
              !.cron.pc = "send"]
  /\ NotifFrame

\* the reminder's await bot.telegram.sendMessage
CronSend ==
  /\ ~notif.done /\ notif.cron.pc = "send"
  /\ \E sendFails \in BOOLEAN :
       notif' = [notif EXCEPT
         !.sends[Reminder] = IF sendFails THEN "failed" ELSE "ok",
         !.cron.pc = IF sendFails THEN "handled" ELSE "update"]
  /\ NotifFrame

\* the reminder's prisma.notificationLog.update({where: {id: log.id}})
CronUpdate ==
  /\ ~notif.done /\ notif.cron.pc = "update"
  /\ \E updateFails \in BOOLEAN :
       IF updateFails
       THEN notif' = [notif EXCEPT !.cron.pc = "handled"]
       ELSE notif' = [notif EXCEPT
              !.logs[notif.cron.log] = [@ EXCEPT !.status = "sent", !.set_by = Reminder],
              !.cron.pc = "handled"]
  /\ NotifFrame

NextNotif ==
  \/ \E j \in 1..MaxJobs : JobSend(j)
  \/ \E j \in 1..MaxJobs : JobUpdate(j)
  \/ \E j \in 1..MaxJobs : JobCatchUpdate(j)
  \/ CronCreate
  \/ CronSend
  \/ CronUpdate

SpecNotif == InitNotif /\ [][NextNotif]_vars

\* the task list of the web client under toggleTask: each call is a step up
\* to its await and a step after it, so calls interleave
WebStatuses == {"todo", "in_progress", "done"}
WebRevs == {"v1", "v2"}
WebLists ==
  UNION {[1..n -> WebStatuses] : n \in 1..MaxShown}

NoWebEvent == [kind |-> "none", t |-> [id |-> 0, status |-> NULL, rev |-> NULL],
               retval |-> [id |-> 0, status |-> NULL, rev |-> NULL]]

InitWeb ==
  /\ ApiInit /\ ErrIdle /\ AiIdle /\ JobIdle /\ CronIdle /\ PromptIdle /\ NotifIdle
  /\ \E statuses \in WebLists :
       web = [done |-> FALSE,
              tasks |-> [i \in 1..Len(statuses) |->
                           [id |-> i, status |-> statuses[i], rev |-> "v1"]],
              error |-> NULL, pending |-> {}, event |-> NoWebEvent]

\* toggleTask(t) up to the await: the optimistic update and the request
ToggleTaskCall(i) ==
  /\ ~web.done
  /\ i \in 1..Len(web.tasks)
  /\ Cardinality(web.pending) < MaxPending
  /\ LET t == web.tasks[i]
         call == [t |-> t, next |-> NextStatus(t)] IN
     /\ call \notin web.pending
     /\ web' = [web EXCEPT
                  !.tasks = OptimisticTasks(web.tasks, t, NextStatus(t)),
                  !.pending = @ \cup {call},
                  !.event = [kind |-> "call", t |-> t, retval |-> t]]
  /\ UNCHANGED <<store, now, last, handled, ai, job, cron, pr, notif>>

\* toggleTask(t) after the await, api.updateTask having returned `updated`
ToggleTaskResolved(call, rev) ==
  /\ ~web.done
  /\ call \in web.pending
  /\ LET updated == [id |-> call.t.id, status |-> call.next, rev |-> rev] IN
     web' = [web EXCEPT
               !.tasks = ReplacedTasks(web.tasks, call.t, updated),
               !.pending = @ \ {call},
               !.event = [kind |-> "resolved", t |-> call.t, retval |-> updated]]
  /\ UNCHANGED <<store, now, last, handled, ai, job, cron, pr, notif>>

\* toggleTask(t) after the await, api.updateTask having thrown e
ToggleTaskRejected(call, e) ==
  /\ ~web.done
  /\ call \in web.pending
  /\ web' = [web EXCEPT
               !.tasks = RestoredTasks(web.tasks, call.t),
               !.error = friendlyError(e),
               !.pending = @ \ {call},
               !.event = [kind |-> "rejected", t |-> call.t, retval |-> call.t]]
  /\ UNCHANGED <<store, now, last, handled, ai, job, cron, pr, notif>>

NextWeb ==
  \/ \E i \in 1..MaxShown : ToggleTaskCall(i)
  \/ \E call \in web.pending, rev \in WebRevs : ToggleTaskResolved(call, rev)
  \/ \E call \in web.pending, e \in FetchErrors : ToggleTaskRejected(call, e)

SpecWeb == InitWeb /\ [][NextWeb]_vars

\* toggleTask with the server behind it: server[i] is the status the server
\* holds for task i. A call awaiting the server is [t, next, seq, state]:
\* seq numbers the calls in the order made and state is "sent" (the request
\* has not been handled), "ok" (the server has applied it and answered) or
\* "failed" (the request was refused or never arrived). The server handles
\* the requests in the order they were made; the answers arrive in any order
InitSync ==
  /\ ApiInit /\ ErrIdle /\ AiIdle /\ JobIdle /\ CronIdle /\ PromptIdle /\ NotifIdle
  /\ \E statuses \in WebLists :
       web = [done |-> FALSE,
              tasks |-> [i \in 1..Len(statuses) |->
                           [id |-> i, status |-> statuses[i], rev |-> "v1"]],
              server |-> statuses,
              error |-> NULL, pending |-> {}, calls |-> 0]

\* toggleTask(t) up to the await: the optimistic update and the request
SyncCall(i) ==
  /\ ~web.done
  /\ i \in 1..Len(web.tasks)
  /\ Cardinality(web.pending) < MaxPending
  /\ web.calls < MaxToggles
  /\ LET t == web.tasks[i] IN
     web' = [web EXCEPT
               !.tasks = OptimisticTasks(web.tasks, t, NextStatus(t)),
               !.pending = @ \cup {[t |-> t, next |-> NextStatus(t),
                                    seq |-> web.calls + 1, state |-> "sent"]},
               !.calls = @ + 1]
  /\ UNCHANGED <<store, now, last, handled, ai, job, cron, pr, notif>>

\* api.updateTask(t.id, {status: next}) at the server: the oldest request not
\* yet handled is applied, or it fails and changes nothing
ServerPatch(call, ok) ==
  /\ ~web.done
  /\ call \in web.pending /\ call.state = "sent"
  /\ \A c \in web.pending : c.state = "sent" => call.seq <= c.seq
  /\ web' = [web EXCEPT
               !.server[call.t.id] = IF ok THEN call.next ELSE @,
               !.pending = (@ \ {call})
                  \cup {[call EXCEPT !.state = IF ok THEN "ok" ELSE "failed"]}]
  /\ UNCHANGED <<store, now, last, handled, ai, job, cron, pr, notif>>

\* toggleTask(t) after the await, api.updateTask having returned the task
SyncResolved(call) ==
  /\ ~web.done
  /\ call \in web.pending /\ call.state = "ok"
  /\ web' = [web EXCEPT
               !.tasks = ReplacedTasks(web.tasks, call.t,
                                       [id |-> call.t.id, status |-> call.next,
                                        rev |-> call.t.rev]),
               !.pending = @ \ {call}]
  /\ UNCHANGED <<store, now, last, handled, ai, job, cron, pr, notif>>

\* toggleTask(t) after the await, api.updateTask having thrown e
SyncRejected(call, e) ==
  /\ ~web.done
  /\ call \in web.pending /\ call.state = "failed"
  /\ web' = [web EXCEPT
               !.tasks = RestoredTasks(web.tasks, call.t),
               !.error = friendlyError(e),
               !.pending = @ \ {call}]
  /\ UNCHANGED <<store, now, last, handled, ai, job, cron, pr, notif>>

NextSync ==
  \/ \E i \in 1..MaxShown : SyncCall(i)
  \/ \E call \in web.pending, ok \in BOOLEAN : ServerPatch(call, ok)
  \/ \E call \in web.pending : SyncResolved(call)
  \/ \E call \in web.pending, e \in FetchErrors : SyncRejected(call, e)

SpecSync == InitSync /\ [][NextSync]_vars

\* ------------------------------------------------------------- properties
OpPatchFocus  == "PATCH /focuses/:id"
OpDeleteFocus == "DELETE /focuses/:id"
OpCreateTask  == "POST /focuses/:id/tasks"
OpPatchTask   == "PATCH /tasks/:id"
OpDeleteTask  == "DELETE /tasks/:id"
OpPlanToTasks == "POST /focuses/:id/assistant/plan_to_tasks"
OpSendMessage == "POST /focuses/:id/assistant/message"
OpAddComment  == "POST /tasks/:id/comments"

\* the step is the handling of a request `op`; last' is the request and its reply
Handled(op) == last = NoReply /\ last' # NoReply /\ last'.op = op

\* the code field of a reply body, NULL when the body has none
Code(r) == IF Has(r.body, "code") THEN r.body.code ELSE NULL

\* the error a reply names: its code, or its error field when it has no code
ErrorName(r) ==
  IF Has(r.body, "code") THEN r.body.code
  ELSE IF Has(r.body, "error") THEN r.body.error ELSE NULL

Rejected(r, status, code) == r.status = status /\ Code(r) = code

FocusChanged(f) ==
  f \in DOMAIN focuses /\ (f \notin DOMAIN focuses' \/ focuses'[f] # focuses[f])

\* a focus changes or disappears only in a PATCH or DELETE of that focus by
\* its owner
C1_OnlyOwnerMutates ==
  \A f \in FocusIds :
    FocusChanged(f) =>
      /\ Handled(OpPatchFocus) \/ Handled(OpDeleteFocus)
      /\ last'.target = f
      /\ findMember(f, last'.user) = "owner"

\* C1 as stated: a focus is modified or deleted only by PATCH or DELETE
\* /focuses/:id from its owner; from a non-member the request gets 403
\* forbidden, from a member who is not the owner 403 owner_only, and the focus
\* is unchanged.
C1_Original ==
  [][ /\ C1_OnlyOwnerMutates
      /\ (Handled(OpPatchFocus) \/ Handled(OpDeleteFocus)) =>
           LET role == findMember(last'.target, last'.user) IN
           /\ role = NULL => Rejected(last', 403, "forbidden") /\ focuses' = focuses
           /\ role = "member" => Rejected(last', 403, "owner_only") /\ focuses' = focuses
    ]_vars

\* C1, amended: as C1, except that PATCH /focuses/:id from a user whose
\* subscription is not active gets 402 trial_expired whatever the user's
\* membership; the 403 replies are those of DELETE and of PATCH from an active
\* user. The focus is unchanged in each of these cases.
C1_Amended ==
  [][ /\ C1_OnlyOwnerMutates
      /\ (Handled(OpPatchFocus) \/ Handled(OpDeleteFocus)) =>
           LET role == findMember(last'.target, last'.user) IN
           IF Handled(OpPatchFocus) /\ ~active[last'.user]
           THEN Rejected(last', 402, "trial_expired") /\ focuses' = focuses
           ELSE /\ role = NULL =>
                     Rejected(last', 403, "forbidden") /\ focuses' = focuses
                /\ role = "member" =>
                     Rejected(last', 403, "owner_only") /\ focuses' = focuses
    ]_vars

\* a member who is not the owner has been refused a PATCH of the focus
C1_Witness ==
  /\ last.op = OpPatchFocus
  /\ Rejected(last, 403, "owner_only")
  /\ findMember(last.target, last.user) = "member"

\* C2: the status of an existing task changes only in a PATCH /tasks/:id of
\* that task by the owner of its focus or by a member of the focus to whom the
\* task is assigned.
C2_StatusOnlyByOwnerOrAssignee ==
  [][ \A t \in DOMAIN tasks \cap DOMAIN tasks' :
        tasks'[t].status # tasks[t].status =>
          /\ Handled(OpPatchTask)
          /\ last'.target = t
          /\ LET role == findMember(tasks[t].focus_id, last'.user) IN
               \/ role = "owner"
               \/ role = "member" /\ tasks[t].assigned_to_user_id = last'.user
    ]_vars

\* a member who is the assignee has set the task's status to done
C2_Witness ==
  /\ last.op = OpPatchTask /\ last.status = 200
  /\ last.target \in DOMAIN tasks
  /\ findMember(tasks[last.target].focus_id, last.user) = "member"
  /\ tasks[last.target].assigned_to_user_id = last.user
  /\ tasks[last.target].status = "done"

\* the requester of PATCH /tasks/:id is active, a member but not the owner of
\* the task's focus, and not the task's assignee
NonAssigneeMember(u, t) ==
  /\ active[u]
  /\ t \in DOMAIN tasks
  /\ findMember(tasks[t].focus_id, u) = "member"
  /\ tasks[t].assigned_to_user_id # u

\* C3 as stated: PATCH /tasks/:id by an active non-owner member who is not
\* the assignee gets 403 not_assignee and leaves the task unchanged, whatever
\* the body.
C3_Original ==
  [][ \A u \in Users, t \in TaskIds, body \in PatchTaskBodies :
        (NonAssigneeMember(u, t) /\ PatchTask(u, t, body)) =>
          Rejected(last', 403, "not_assignee") /\ tasks' = tasks
    ]_vars

\* C3, amended: such a request gets 403 not_assignee when its body passes
\* patchTaskSchema and 422 validation_error when it does not; the task is
\* unchanged in both cases.
C3_Amended ==
  [][ \A u \in Users, t \in TaskIds, body \in PatchTaskBodies :
        (NonAssigneeMember(u, t) /\ PatchTask(u, t, body)) =>
          /\ tasks' = tasks
          /\ IF patchTaskSchema(body) THEN Rejected(last', 403, "not_assignee")
             ELSE Rejected(last', 422, "validation_error")
    ]_vars

\* a member who is not the assignee has been refused a PATCH of the task
C3_Witness ==
  /\ last.op = OpPatchTask
  /\ Rejected(last, 403, "not_assignee")
  /\ NonAssigneeMember(last.user, last.target)

\* the focus a created or deleted task belongs to
TaskAdded(t)   == t \in DOMAIN tasks' /\ t \notin DOMAIN tasks
TaskRemoved(t) == t \in DOMAIN tasks /\ t \notin DOMAIN tasks'

\* a task appears or disappears only at the request of the owner of its focus
C4_OnlyOwnerCreatesOrDeletes ==
  \A t \in TaskIds :
    /\ TaskAdded(t) =>
         /\ Handled(OpCreateTask) \/ Handled(OpPlanToTasks)
         /\ tasks'[t].focus_id = last'.target
         /\ findMember(tasks'[t].focus_id, last'.user) = "owner"
    /\ TaskRemoved(t) =>
         /\ \/ Handled(OpDeleteTask) /\ last'.target = t
            \/ Handled(OpDeleteFocus) /\ last'.target = tasks[t].focus_id
         /\ findMember(tasks[t].focus_id, last'.user) = "owner"

\* the focus POST /focuses/:id/tasks or DELETE /tasks/:id is about: the
\* focus named, or the focus of the (existing) task named
C4_Focus ==
  IF Handled(OpCreateTask) THEN last'.target ELSE tasks[last'.target].focus_id

\* C4 as stated: tasks are created (POST /focuses/:id/tasks) and deleted
\* (DELETE /tasks/:id) only for the owner of the task's focus; a non-member
\* gets 403 forbidden, a non-owner member 403 owner_only, and the tasks are
\* unchanged.
C4_Original ==
  [][ /\ C4_OnlyOwnerCreatesOrDeletes
      /\ (Handled(OpCreateTask) \/ (Handled(OpDeleteTask) /\ last'.target \in DOMAIN tasks)) =>
           LET role == findMember(C4_Focus, last'.user) IN
           /\ role = NULL => Rejected(last', 403, "forbidden") /\ tasks' = tasks
           /\ role = "member" => Rejected(last', 403, "owner_only") /\ tasks' = tasks
    ]_vars

\* C4, amended: as C4, except that POST /focuses/:id/tasks from a user whose
\* subscription is not active gets 402 trial_expired whatever the user's
\* membership; the 403 replies are those of DELETE and of POST from an active
\* user. The tasks are unchanged in each of these cases.
C4_Amended ==
  [][ /\ C4_OnlyOwnerCreatesOrDeletes
      /\ (Handled(OpCreateTask) \/ (Handled(OpDeleteTask) /\ last'.target \in DOMAIN tasks)) =>
           LET role == findMember(C4_Focus, last'.user) IN
           IF Handled(OpCreateTask) /\ ~active[last'.user]
           THEN Rejected(last', 402, "trial_expired") /\ tasks' = tasks
           ELSE /\ role = NULL =>
                     Rejected(last', 403, "forbidden") /\ tasks' = tasks
                /\ role = "member" =>
                     Rejected(last', 403, "owner_only") /\ tasks' = tasks
    ]_vars

\* a member who is not the owner has been refused the deletion of a task
C4_Witness ==
  /\ last.op = OpDeleteTask
  /\ Rejected(last, 403, "owner_only")
  /\ last.target \in DOMAIN tasks
  /\ findMember(tasks[last.target].focus_id, last.user) = "member"

\* C5: a PATCH /tasks/:id accepted from a non-owner member (the assignee)
\* changes at most the task's status, completed_at, due_at and description:
\* every other field of the task, title, priority and assigned_to_user_id
\* among them, and every other task stay as they were.
C5_MemberPatchFrame ==
  [][ (Handled(OpPatchTask) /\ last'.status = 200
       /\ findMember(tasks[last'.target].focus_id, last'.user) = "member") =>
        LET t == last'.target IN
        /\ DOMAIN tasks' = DOMAIN tasks
        /\ \A x \in DOMAIN tasks \ {t} : tasks'[x] = tasks[x]
        /\ [tasks'[t] EXCEPT !.status = tasks[t].status,
                             !.completed_at = tasks[t].completed_at,
                             !.due_at = tasks[t].due_at,
                             !.description = tasks[t].description] = tasks[t]
    ]_vars

\* the assignee, a member, sent a body with a new title, priority and
\* assignee: the description is the body's and the title is the old one
C5_Witness ==
  /\ last.op = OpPatchTask /\ last.status = 200
  /\ last.target \in DOMAIN tasks
  /\ findMember(tasks[last.target].focus_id, last.user) = "member"
  /\ tasks[last.target].description = "moved"
  /\ tasks[last.target].title = "Call supplier"
  /\ tasks[last.target].assigned_to_user_id = last.user

\* the HTTP status the error table gives each error code
DeclaredStatus(code) ==
  IF code = "unauthorized" THEN 401
  ELSE IF code = "trial_expired" THEN 402
  ELSE IF code \in {"forbidden", "owner_only", "not_assignee"} THEN 403
  ELSE IF code = "not_found" THEN 404
  ELSE IF code = "gone" THEN 410
  ELSE IF code = "validation_error" THEN 422
  ELSE 500

DeclaredCodes == {"unauthorized", "trial_expired", "forbidden", "owner_only",
                  "not_assignee", "not_found", "gone", "validation_error",
                  "internal_error"}

\* C6: globalErrorHandler answers a ZodError with 422 validation_error, an
\* AppError with its own httpStatus and code (the Errors constructors having
\* the statuses of the error table), any other error whose statusCode is below
\* 500 with that status and request_error, and every remaining error with 500
\* internal_error, logged.
C6_ErrorMapping ==
  handled.done =>
  LET e == handled.err
      r == handled.reply IN
  /\ e.kind = "ZodError" => r.status = 422 /\ r.body.code = "validation_error"
  /\ e.kind = "AppError" => r.status = e.httpStatus /\ r.body.code = e.code
  /\ (e \in Errors /\ e.code \in DeclaredCodes) => r.status = DeclaredStatus(e.code)
  /\ (e.kind = "Error" /\ e.statusCode # NullNum /\ e.statusCode < 500) =>
       r.status = e.statusCode /\ r.body.code = "request_error"
  /\ (e.kind = "Error" /\ (e.statusCode = NullNum \/ e.statusCode >= 500)) =>
       r.status = 500 /\ r.body.code = "internal_error" /\ r.logged
  /\ e.kind # "none" => r.body.ok = FALSE

\* a Fastify 404 has been answered with 404 request_error
C6_Witness ==
  /\ handled.done
  /\ handled.err.kind = "Error" /\ handled.err.statusCode = 404
  /\ handled.reply.status = 404 /\ handled.reply.body.code = "request_error"

\* C7: every error reply of the API has a body with ok = false, a code field
\* and an error field.
C7_ErrorBodyShape ==
  last.status >= 400 =>
    /\ last.body.ok = FALSE
    /\ Has(last.body, "code")
    /\ Has(last.body, "error")

TrialGatedOps == {"POST /focuses", OpPatchFocus, OpCreateTask, OpPatchTask,
                  OpSendMessage, OpPlanToTasks}

\* C8: a request to one of the six subscription-gated endpoints from a user
\* whose subscription is not active is answered 402, naming trial_expired (as
\* the code of the reply or, where the reply has no code, as its error), and
\* writes nothing: no row of the store and no EventLog row.
C8_TrialCheckFirst ==
  [][ (last = NoReply /\ last' # NoReply /\ last'.op \in TrialGatedOps
       /\ ~active[last'.user]) =>
        /\ last'.status = 402
        /\ ErrorName(last') = "trial_expired"
        /\ last'.events = <<>>
        /\ UNCHANGED store
    ]_vars

\* an inactive user has been refused a PATCH of a task that does not exist
C8_Witness ==
  /\ last.op = OpPatchTask /\ last.status = 402
  /\ ~active[last.user]
  /\ last.target \notin DOMAIN tasks

ReadOps == {"GET /focuses/:id", "GET /focuses/:id/tasks",
            "GET /focuses/:id/assistant/thread"}

\* the requester of one of the five requests of C9 is no member of the focus
\* the request names (for a comment: of the focus of the existing task)
C9_NonMember ==
  \/ (\E op \in ReadOps \cup {OpSendMessage} : Handled(op))
       /\ findMember(last'.target, last'.user) = NULL
  \/ Handled(OpAddComment) /\ last'.target \in DOMAIN tasks
       /\ findMember(tasks[last'.target].focus_id, last'.user) = NULL

\* the reply carries nothing but ok, code and error
NoData(r) == DOMAIN r.body \subseteq {"ok", "code", "error"}

\* C9 as stated: each of the five requests from a non-member is answered 403,
\* returns none of the focus's data and creates no comment and no message.
C9_Original ==
  [][ C9_NonMember =>
        /\ last'.status = 403
        /\ NoData(last')
        /\ comments' = comments /\ threads' = threads
    ]_vars

\* C9, amended: as C9, except that POST /focuses/:id/assistant/message from a
\* non-member whose subscription is not active is answered 402 (trial_expired)
\* instead of 403; it too returns no data and creates no message.
C9_Amended ==
  [][ C9_NonMember =>
        /\ last'.status =
             (IF Handled(OpSendMessage) /\ ~active[last'.user] THEN 402 ELSE 403)
        /\ NoData(last')
        /\ comments' = comments /\ threads' = threads
    ]_vars

\* a non-member has been refused a comment on an existing task
C9_Witness ==
  /\ last.op = OpAddComment /\ last.status = 403
  /\ last.target \in DOMAIN tasks
  /\ findMember(tasks[last.target].focus_id, last.user) = NULL

AllSpace(text) == \A i \in 1..Len(text) : text[i] = Space

\* what may stand before the JSON document: space, then optionally a json
\* fence and space, then optionally a plain fence and space
LeadIn(text) ==
  \E i \in 0..Len(text), j \in 0..Len(text) :
    /\ i <= j
    /\ AllSpace(SubSeq(text, 1, i))
    /\ LET a == SubSeq(text, i + 1, j)
           b == SubSeq(text, j + 1, Len(text)) IN
       /\ a = <<>> \/ (Len(a) >= 2 /\ a[1] = Fence /\ a[2] = JsonWord
                        /\ AllSpace(SubSeq(a, 3, Len(a))))
       /\ b = <<>> \/ (b[1] = Fence /\ AllSpace(Tail(b)))

\* what may stand after it: space, then optionally a fence, then space
LeadOut(text) ==
  \E i \in 0..Len(text) :
    /\ AllSpace(SubSeq(text, 1, i))
    /\ LET b == SubSeq(text, i + 1, Len(text)) IN
         b = <<>> \/ (b[1] = Fence /\ AllSpace(Tail(b)))

\* the content is one JSON object with a string reply, bare or fenced
ReplyAt(text, i) ==
  /\ JsonValue(text[i]).replyIsString
  /\ LeadIn(SubSeq(text, 1, i - 1))
  /\ LeadOut(SubSeq(text, i + 1, Len(text)))

\* C10: on an OK provider response with content c, when c is a JSON object
\* with a string reply, bare or inside a json or plain fence, the reply
\* returned is that parsed reply; in every other case the reply is the raw
\* text c with no tasks, or the fixed could-not-parse message when c is empty.
C10_ReplyExtraction ==
  (ai.done /\ ai.hasKey /\ ai.resOk) =>
    LET c == ai.content IN
    IF \E i \in 1..Len(c) : ReplyAt(c, i)
    THEN \E i \in 1..Len(c) : ReplyAt(c, i) /\ ai.result.reply = JsonValue(c[i]).reply
    ELSE /\ ai.result.reply = (IF c = <<>> THEN CouldNotParse ELSE c)
         /\ ~ai.result.hasTasks

\* a fenced JSON answer has been parsed
C10_Witness ==
  /\ ai.done /\ ai.hasKey /\ ai.resOk
  /\ ai.content = <<Fence, JsonWord, ObjReply, Fence>>
  /\ ai.result.reply = <<"Plan">>

\* C11: the assistant message POST message stores has the reply returned by
\* callBusinessAssistant as content, and as suggested_tasks the tasks array of
\* the parsed provider response when the response was parsed to a string
\* reply with an array tasks, and the empty list in every other case:
\* non-array tasks, raw-text fallback, provider error, missing API key.
C11_StoredAssistantMessage ==
  ai.done =>
    LET parsed == safeJsonParse(ai.content)
        accepted == ai.hasKey /\ ai.resOk /\ parsed.truthy /\ parsed.replyIsString IN
    /\ ai.message.role = "assistant"
    /\ ai.message.content = ai.result.reply
    /\ ai.message.suggested_tasks =
         (IF accepted /\ parsed.tasksIsArray THEN parsed.tasks ELSE <<>>)

\* a fenced answer with a tasks array has been stored with its tasks
C11_Witness ==
  /\ ai.done /\ ai.hasKey /\ ai.resOk
  /\ ai.content = <<Fence, JsonWord, ObjReplyTasks, Fence>>
  /\ ai.message.content = <<"Plan">>
  /\ ai.message.suggested_tasks = <<SuggestedTask>>

\* the queued rows of the job's user and type have all become `status`
JobRowsBecame(status) ==
  \A i \in 1..Len(job.before) :
    IF JobLogMatches(job.before[i], job.data)
    THEN job.logs[i] = [job.before[i] EXCEPT !.status = status, !.error = job.error]
    ELSE job.logs[i] = job.before[i]

Attempted(i) == \E k \in 1..Len(cron.out.attempted) : cron.out.attempted[k] = i

\* whole days from the run to the due date, by the calendar and by the clock
CalendarDaysAway(due, run) == (due \div HoursPerDay) - (run \div HoursPerDay)
ElapsedDaysAway(due, run) == (due - run) \div HoursPerDay

\* C13: the deadline reminder job sends a reminder for a task only when the
\* due date of the task is DEADLINE_REMINDER_DAYS days after the run, counted
\* by the calendar or in whole days elapsed.
C13_RemindsOnlyNDaysAhead ==
  (cron.done /\ cron.kind = "deadline") =>
    \A i \in 1..Len(cron.rows) :
      Attempted(i) =>
        \/ CalendarDaysAway(cron.rows[i].due_at, cron.run) = cron.days
        \/ ElapsedDaysAway(cron.rows[i].due_at, cron.run) = cron.days

\* C14: no run of either job attempts a send for a row whose status is done
\* or canceled, that has no assignee, or whose assignee has no tg_id; the
\* overdue job attempts one only for a row whose due_at is before the run.
C14_NoSendForClosedOrUnreachable ==
  cron.done =>
    \A i \in 1..Len(cron.rows) :
      Attempted(i) =>
        /\ cron.rows[i].status \notin {"done", "canceled"}
        /\ cron.rows[i].assigned_to # NoAssignee
        /\ cron.rows[i].assigned_to.tg_id # NullNum
        /\ cron.kind = "overdue" =>
             (cron.rows[i].due_at # NullNum /\ cron.rows[i].due_at < cron.run)

\* the overdue job has notified about an open overdue row and passed over a
\* closed overdue row
C14_Witness ==
  /\ cron.done /\ cron.kind = "overdue"
  /\ \E i, k \in 1..Len(cron.rows) :
       /\ Attempted(i)
       /\ cron.rows[k].status = "canceled" /\ cron.rows[k].due_at = AtHour(RunDay, 8)
       /\ cron.rows[k].assigned_to.tg_id # NullNum
       /\ ~Attempted(k)

\* C15: in one run of either job a failure met at one row does not stop the
\* run: a send is attempted for every selected row whose assignee has a
\* tg_id and whose own log write did not fail.
C15_FailureDoesNotStopRun ==
  cron.done =>
    \A i \in 1..Len(cron.selected) :
      LET r == cron.selected[i] IN
      (cron.rows[r].assigned_to.tg_id # NullNum /\ cron.failures[r] # "log")
        => Attempted(r)

\* the send for the first selected row failed and the second was delivered
C15_Witness ==
  /\ cron.done /\ cron.kind = "deadline"
  /\ Len(cron.selected) = 2
  /\ cron.failures[cron.selected[1]] = "send"
  /\ cron.out.delivered = <<cron.selected[2]>>

\* the task with the id of t as the list shows it
Shown(w, t) == CHOOSE x \in {w.tasks[i] : i \in 1..Len(w.tasks)} : x.id = t.id

\* the tasks other than t are shown as before
OthersUnchanged(t) ==
  /\ Len(web'.tasks) = Len(web.tasks)
  /\ \A i \in 1..Len(web.tasks) :
       web.tasks[i].id # t.id => web'.tasks[i] = web.tasks[i]

\* no other call on the task of `call` awaits the server
NoOtherPending(call) ==
  \A c \in web.pending : c.t.id = call.t.id => c = call

\* C16: toggleTask(t), no other change to the same task pending, first shows
\* the task with its status flipped (done to todo, any other status to done)
\* and nothing else of it changed; if the request fails the task shown is
\* exactly t again and an error is set; if it succeeds the task shown is the
\* task the server returned; every other task of the list stays as it was.
C16_OptimisticToggle ==
  [][ LET ev == web'.event
          call == [t |-> ev.t, next |-> NextStatus(ev.t)] IN
      /\ (web' # web /\ ev.kind = "call" /\ \A c \in web.pending : c.t.id # ev.t.id) =>
           /\ Shown(web', ev.t) = [ev.t EXCEPT !.status = NextStatus(ev.t)]
           /\ Shown(web', ev.t).status # ev.t.status
           /\ ev.t.status \in {"done", "todo"} =>
                Shown(web', ev.t).status \in {"done", "todo"}
           /\ OthersUnchanged(ev.t)
      /\ (web' # web /\ ev.kind = "rejected" /\ NoOtherPending(call)) =>
           /\ Shown(web', ev.t) = ev.t
           /\ web'.error # NULL /\ web'.error # ""
           /\ OthersUnchanged(ev.t)
      /\ (web' # web /\ ev.kind = "resolved" /\ NoOtherPending(call)) =>
           /\ Shown(web', ev.t) = ev.retval
           /\ OthersUnchanged(ev.t)
    ]_vars

\* a failed toggle of task 1 has put it back as it was, with an error shown,
\* while task 2 is shown as the server returned it
C16_Witness ==
  /\ ~web.done /\ web.event.kind = "rejected" /\ web.event.t.id = 1
  /\ web.pending = {}
  /\ Len(web.tasks) = 2
  /\ web.tasks[1] = web.event.t
  /\ web.tasks[2].rev = "v2"
  /\ web.error # NULL

OpListTasks == "GET /focuses/:id/tasks"

\* C17: every task GET /focuses/:id/tasks returns to a member is a task of
\* that focus; unless the query has assigned = all (also when assigned is
\* absent) it is assigned to the requester; when status or priority is given
\* it has that status or priority.
C17_ListFilters ==
  (last.op = OpListTasks /\ last.status = 200) =>
    /\ findMember(last.target, last.user) # NULL
    /\ \A t \in DOMAIN last.body.tasks :
         /\ t \in DOMAIN tasks /\ last.body.tasks[t] = tasks[t]
         /\ tasks[t].focus_id = last.target
         /\ last.query.assigned # "all" => tasks[t].assigned_to_user_id = last.user
         /\ last.query.status # NULL => tasks[t].status = last.query.status
         /\ last.query.priority # NULL => tasks[t].priority = last.query.priority

\* a query without assigned has returned the requester's task of the focus
\* and neither the task of the other focus nor the task of the other user
C17_Witness ==
  /\ last.op = OpListTasks /\ last.status = 200
  /\ last.user = "u2" /\ last.target = 1 /\ last.query.assigned = NULL
  /\ DOMAIN last.body.tasks = {1}
  /\ Len(tasks) = 2
  /\ (tasks[2].focus_id = 2 \/ tasks[2].assigned_to_user_id = "u1")

\* an error that is no ZodError, no AppError and has no statusCode below 500
Unexpected(err) ==
  err.kind = "Error" /\ (err.statusCode = NullNum \/ err.statusCode >= 500)

\* C18: for an unexpected error globalErrorHandler sends HTTP 500 with code
\* internal_error and the fixed error text whether or not the logEvent call
\* fails; a failed logEvent only leaves the event log without the row.
C18_LogEventFailureSwallowed ==
  (handled.done /\ Unexpected(handled.err)) =>
    LET r == handled.reply IN
    /\ r.status = 500
    /\ Has(r.body, "ok") /\ r.body.ok = FALSE
    /\ Has(r.body, "code") /\ r.body.code = "internal_error"
    /\ Has(r.body, "error") /\ r.body.error = "Something went wrong. Please try again."
    /\ r.logged
    /\ r.events = (IF handled.logEventFails THEN <<>> ELSE <<"error_api">>)

\* an error with statusCode 503 was answered 500 although logEvent failed
C18_Witness ==
  /\ handled.done /\ handled.logEventFails
  /\ handled.err.kind = "Error" /\ handled.err.statusCode = 503
  /\ handled.reply.status = 500
  /\ handled.reply.body.code = "internal_error"
  /\ handled.reply.events = <<>>

\* the tasks and subtasks of the plan `request` have all been created in
\* focus f, under the next free ids, and no other task has changed
PlanCreated(request, f) ==
  LET n == Len(request.tasks) IN
  /\ DOMAIN tasks' = DOMAIN tasks \cup (nextTaskId .. nextTaskId + n - 1)
  /\ \A t \in DOMAIN tasks : tasks'[t] = tasks[t]
  /\ \A i \in 1..n :
       LET row == tasks'[nextTaskId + i - 1]
           item == request.tasks[i] IN
       /\ row.focus_id = f
       /\ row.title = item.title
       /\ Len(row.subtasks) = (IF Has(item, "subtasks") THEN Len(item.subtasks) ELSE 0)
       /\ \A j \in 1..Len(row.subtasks) : row.subtasks[j] = item.subtasks[j].title

\* what plan_to_tasks does for the owner, and that only the owner creates
PlanAllOrNothing ==
  LET role == findMember(last'.target, last'.user) IN
  /\ role = "owner" =>
       \/ last'.status = 200 /\ PlanCreated(last'.request, last'.target)
       \/ last'.status # 200 /\ tasks' = tasks
  /\ role # "owner" => (last'.status # 200 /\ tasks' = tasks)

\* C19 as stated: plan_to_tasks answers a non-owner member 403 owner_only
\* and creates nothing; for the owner it creates every task of the body with
\* its subtasks in the focus, or nothing at all.
C19_Original ==
  [][ Handled(OpPlanToTasks) =>
        /\ PlanAllOrNothing
        /\ findMember(last'.target, last'.user) = "member" =>
             (last'.status = 403 /\ ErrorName(last') = "owner_only")
    ]_vars

\* C19, amended: as C19, except that a non-owner member whose subscription
\* is not active is answered 402 trial_expired; the 403 owner_only is the
\* answer to a member whose subscription is active. Nothing is created in
\* either case.
C19_Amended ==
  [][ Handled(OpPlanToTasks) =>
        /\ PlanAllOrNothing
        /\ findMember(last'.target, last'.user) = "member" =>
             IF active[last'.user]
             THEN last'.status = 403 /\ ErrorName(last') = "owner_only"
             ELSE last'.status = 402 /\ ErrorName(last') = "trial_expired"
    ]_vars

\* a plan of two tasks, the second with a subtask, has been created next to
\* the task that was there
C19_Witness ==
  /\ last.op = OpPlanToTasks /\ last.status = 200
  /\ Len(last.request.tasks) = 2
  /\ DOMAIN tasks = {1, 2, 3}
  /\ tasks[1].title = "Call supplier"
  /\ tasks[3].subtasks = <<"Landing page">>

\* the row of the thread a sent message was made from
RowOf(msg) == CHOOSE r \in pr.rows : r.role = msg.role /\ r.content = msg.content

\* C20: the message list POST message sends to the provider is the fixed
\* system message, one user message with the project context preamble, then
\* the messages of the thread created last, at most 16 of them and all of
\* them when the thread has fewer, in ascending order of creation, the last
\* one being the user message this request stored.
C20_PromptOrder ==
  (pr.done /\ pr.hasKey) =>
    LET history == SubSeq(pr.sent, 3, Len(pr.sent))
        n == Len(history) IN
    /\ Len(pr.sent) >= 3
    /\ pr.sent[1] = SystemMessage
    /\ pr.sent[2] = [role |-> "user", content |-> ContextPreamble(pr.focus, pr.role)]
    /\ n = (IF Cardinality(pr.rows) < 16 THEN Cardinality(pr.rows) ELSE 16)
    /\ \A i \in 1..n :
         \E r \in pr.rows : r.role = history[i].role /\ r.content = history[i].content
    /\ \A i \in 1..n, j \in 1..n :
         i < j => RowOf(history[i]).created_at < RowOf(history[j]).created_at
    /\ \A r \in pr.rows :
         (\A i \in 1..n : RowOf(history[i]) # r) =>
           \A i \in 1..n : r.created_at < RowOf(history[i]).created_at
    /\ history[n] = [role |-> "user", content |-> pr.content]

\* a thread of 17 messages: the request sent 18 messages, the first of the
\* history being the third message of the thread
C20_Witness ==
  /\ pr.done /\ pr.hasKey
  /\ Cardinality(pr.rows) = 18
  /\ Len(pr.sent) = 18
  /\ pr.sent[3].content = <<"message", 3>>

\* C21: a NotificationLog entry is 'sent' only if the Telegram send made
\* for that very entry succeeded, and under any interleaving of the queue
\* jobs and the deadline reminder no entry gets its status, 'sent' or
\* 'failed', from the update of a different notification.
C21_StatusFromOwnSend ==
  ~notif.done =>
    \A i \in 1..Len(notif.logs) :
      LET row == notif.logs[i] IN
      /\ row.status = "sent" => notif.sends[row.made_for] = "ok"
      /\ row.status # "queued" => row.set_by = row.made_for

\* the NotificationLog row the deadline reminder job created for row i
LogOf(i) ==
  CHOOSE k \in 1..Len(cron.out.logs) : cron.out.logs[k].task = i

Delivered(i) == \E k \in 1..Len(cron.out.delivered) : cron.out.delivered[k] = i

\* C22: once the deadline reminder job has finished handling a task, the
\* NotificationLog entry it created for that task has left 'queued': it is
\* 'sent' if the send succeeded and 'failed' if it did not.
C22_EntryLeavesQueued ==
  (cron.done /\ cron.kind = "deadline") =>
    \A i \in 1..Len(cron.rows) :
      (\E k \in 1..Len(cron.out.logs) : cron.out.logs[k].task = i) =>
        cron.out.logs[LogOf(i)].status = (IF Delivered(i) THEN "sent" ELSE "failed")

\* C23: in the web client, whatever toggleTask calls were made on a task and
\* in whatever order their responses arrived, once no update request is in
\* flight the status shown for the task is the status the server holds.
C23_ShownIsServerStatus ==
  (~web.done /\ web.pending = {}) =>
    \A i \in 1..Len(web.tasks) : web.tasks[i].status = web.server[web.tasks[i].id]

====
